---- MODULE Spec2Model ----
(***************************************************************************)
(* Validation of the chess-coach model output: reference extraction,       *)
(* hallucination scoring and post-validation of REFS lines.                *)
(*                                                                         *)
(* Text is a sequence of one-character strings; the regular expressions    *)
(* of the Python sources are written out as matchers over such sequences.  *)
(***************************************************************************)
EXTENDS Integers, Sequences, FiniteSets, TLC

VARIABLES
    fen,        \* the position argument: [decodable, pieces]
    response,   \* the text argument (model output)
    pc,         \* which call has returned
    score,      \* hallucination_score's return value
    raised,     \* the exception that escaped the call, or "none"
    cleaned,    \* post_validate_refs: the returned text
    rejected,   \* the count a post-validation returns (rejected / removed)
    cleaned2,   \* post_validate_refs applied to its own output: text
    rejected2,  \* post_validate_refs applied to its own output: count
    kept,       \* the fragments kept by a post-validation (before a fallback)
    all_removed, \* post_validate_response: all_removed
    fmt,        \* format_ok: the expected_format argument
    ok,         \* the boolean a detection or validation returns
    parse_result, \* parse_json_response's return value
    fields,     \* parse_refs_coaching's return value
    refs_arg,   \* validate_refs: the refs argument, (square, kind) pairs
    valid,      \* validate_refs: the valid count
    invalid,    \* validate_refs: the invalid count
    resp2,      \* pick_better: the second response
    picked,     \* pick_better's return value: which response, valid, total
    squares,    \* validate_squares' return value: the valid and invalid lists
    args,       \* generate_all_openings.main: --force and --no-resume
    openings_to_generate, \* main: the ids of the openings of this run
    opening_at, \* main: the loop's position in openings_to_generate, 0 = no run
    completed,  \* main: the set of completed ids
    loaded,     \* what load_progress returned when this run began
    progress_file, \* .generate_progress.json: whether it exists, its ids
    output,     \* OUTPUT_DIR: the state of each opening's JSON file
    generated,  \* main: the count of openings generated
    skipped,    \* main: the count of openings skipped
    failed,     \* main: the count of openings failed
    opening,    \* build_tree: the opening argument
    tree,       \* build_tree: the nodes made so far, root first
    var_at      \* build_tree: the variation the graft loop is at, 0 = not built

\* what the format detection and validate_refs write
detectVars == <<fmt, ok, parse_result, fields, refs_arg, valid, invalid>>

\* what the benchmark scripts' accuracy checks write
scriptVars == <<resp2, picked, squares>>

\* what generate_all_openings.main writes
mainVars == <<args, openings_to_generate, opening_at, completed, loaded, progress_file,
              output, generated, skipped, failed>>

\* what generate_all_openings.build_tree writes
treeVars == <<opening, tree, var_at>>

\* the variables of the opening generator
generatorVars == <<mainVars, treeVars>>

vars == <<fen, response, pc, score, raised, cleaned, rejected,
          cleaned2, rejected2, kept, all_removed, detectVars, scriptVars,
          generatorVars>>

-----------------------------------------------------------------------------
(* Characters and character classes (Python's re, str.lower, str.strip)    *)

UPPER == <<"A","B","C","D","E","F","G","H","I","J","K","L","M",
           "N","O","P","Q","R","S","T","U","V","W","X","Y","Z">>
LOWER == <<"a","b","c","d","e","f","g","h","i","j","k","l","m",
           "n","o","p","q","r","s","t","u","v","w","x","y","z">>

UpperSet == {UPPER[k] : k \in DOMAIN UPPER}
LowerSet == {LOWER[k] : k \in DOMAIN LOWER}

\* str.lower() on one character
LowerOf == [c \in UpperSet |-> LOWER[CHOOSE k \in DOMAIN UPPER : UPPER[k] = c]]
LowerChar(c) == IF c \in UpperSet THEN LowerOf[c] ELSE c

\* str.lower()
Lower(t) == [k \in DOMAIN t |-> LowerChar(t[k])]

\* [a-zA-Z]
IsAlpha(c) == c \in UpperSet \/ c \in LowerSet

\* \s
IsSpace(c) == c \in {" ", "\n", "\t", "\r"}

\* the files a-h and the ranks 1-8 of a square name, in index order
FILE_NAMES == <<"a","b","c","d","e","f","g","h">>
RANK_NAMES == <<"1","2","3","4","5","6","7","8">>

FileSet == {FILE_NAMES[k] : k \in DOMAIN FILE_NAMES}
RankSet == {RANK_NAMES[k] : k \in DOMAIN RANK_NAMES}
IsFile(c) == c \in FileSet
IsRank(c) == c \in RankSet

\* the literal w stands in t at position i (case-insensitively when ic)
LitAt(t, i, w, ic) ==
    /\ i >= 1
    /\ i + Len(w) - 1 <= Len(t)
    /\ \A k \in DOMAIN w :
          IF ic THEN LowerChar(t[i + k - 1]) = LowerChar(w[k])
                ELSE t[i + k - 1] = w[k]

\* \s* taken greedily from position i: the position after the run
RECURSIVE SkipSpaces(_, _)
SkipSpaces(t, i) ==
    IF i <= Len(t) /\ IsSpace(t[i]) THEN SkipSpaces(t, i + 1) ELSE i

\* \s+ from position i: the position after the run, 0 when there is none.
\* What follows \s+ in every pattern below starts with a non-space, so the
\* greedy run is the only split that can match.
SpacesEnd(t, i) ==
    IF i <= Len(t) /\ IsSpace(t[i]) THEN SkipSpaces(t, i) ELSE 0

\* [a-h][1-8] at position i; with IGNORECASE the file may be upper case
SquareAt(t, i, ic) ==
    /\ i >= 1
    /\ i + 1 <= Len(t)
    /\ IsFile(IF ic THEN LowerChar(t[i]) ELSE t[i])
    /\ IsRank(t[i + 1])

\* str.strip()
RECURSIVE LStrip(_)
LStrip(t) == IF t # <<>> /\ IsSpace(Head(t)) THEN LStrip(Tail(t)) ELSE t
RECURSIVE RStrip(_)
RStrip(t) ==
    IF t # <<>> /\ IsSpace(t[Len(t)]) THEN RStrip(SubSeq(t, 1, Len(t) - 1)) ELSE t
Strip(t) == RStrip(LStrip(t))

-----------------------------------------------------------------------------
(* python-chess, as far as the scripts use it                              *)

WHITE == "white"
BLACK == "black"

\* piece_at's answer for an empty square
NoPiece == [piece_type |-> "None", color |-> "None"]

\* chess.parse_square: the index of a square name, -1 for the ValueError
parse_square(name) ==
    IF Len(name) = 2 /\ IsFile(name[1]) /\ IsRank(name[2])
    THEN LET f == CHOOSE k \in DOMAIN FILE_NAMES : FILE_NAMES[k] = name[1]
             r == CHOOSE k \in DOMAIN RANK_NAMES : RANK_NAMES[k] = name[2]
         IN (f - 1) + 8 * (r - 1)
    ELSE -1

\* chess.Board(fen): ok is FALSE for the ValueError of an undecodable string
chess_Board(f) == [ok |-> f.decodable, board |-> f.pieces]

\* board.piece_at(sq)
piece_at(board, sq) == IF sq \in DOMAIN board THEN board[sq] ELSE NoPiece

\* board.pieces(piece_type, color): the squares holding such a piece
pieces(board, piece_type, color) ==
    {sq \in DOMAIN board :
        board[sq].piece_type = piece_type /\ board[sq].color = color}

-----------------------------------------------------------------------------
(* evaluator.py: the reference grammar                                     *)

W_king   == <<"k","i","n","g">>
W_queen  == <<"q","u","e","e","n">>
W_rook   == <<"r","o","o","k">>
W_bishop == <<"b","i","s","h","o","p">>
W_knight == <<"k","n","i","g","h","t">>
W_pawn   == <<"p","a","w","n">>

PIECE_NAMES ==
    (W_king :> "KING") @@ (W_queen :> "QUEEN") @@ (W_rook :> "ROOK") @@
    (W_bishop :> "BISHOP") @@ (W_knight :> "KNIGHT") @@ (W_pawn :> "PAWN")

\* PIECE_NAMES.get(name)
PIECE_NAMES_get(name) ==
    IF name \in DOMAIN PIECE_NAMES THEN PIECE_NAMES[name] ELSE "None"

NoMatch == [ok |-> FALSE]

\* (?:(?:white|black)['\u2019]?s?\s+)  -- the position after it, 0 when it does
\* not match at i. Each optional character is followed by something that
\* cannot match it, so taking it greedily loses no match.
COLOR_PREFIX(t, i) ==
    IF \/ LitAt(t, i, <<"w","h","i","t","e">>, TRUE)
       \/ LitAt(t, i, <<"b","l","a","c","k">>, TRUE)
    THEN LET p1 == i + 5
             p2 == IF p1 <= Len(t) /\ t[p1] = "'" THEN p1 + 1 ELSE p1
             p3 == IF p2 <= Len(t) /\ LowerChar(t[p2]) = "s" THEN p2 + 1 ELSE p2
         IN SpacesEnd(t, p3)
    ELSE 0

\* (?:the\s+|a\s+)  -- the position after it, 0 when it does not match at i
ARTICLE(t, i) ==
    IF LitAt(t, i, <<"t","h","e">>, TRUE) THEN SpacesEnd(t, i + 3)
    ELSE IF LitAt(t, i, <<"a">>, TRUE) THEN SpacesEnd(t, i + 1)
    ELSE 0

\* (?P<piece>king|queen|rook|bishop|knight|pawn): the alternative that
\* matches at i, <<>> when none does
PIECE_WORD(t, i) ==
    IF LitAt(t, i, W_king, TRUE) THEN W_king
    ELSE IF LitAt(t, i, W_queen, TRUE) THEN W_queen
    ELSE IF LitAt(t, i, W_rook, TRUE) THEN W_rook
    ELSE IF LitAt(t, i, W_bishop, TRUE) THEN W_bishop
    ELSE IF LitAt(t, i, W_knight, TRUE) THEN W_knight
    ELSE IF LitAt(t, i, W_pawn, TRUE) THEN W_pawn
    ELSE <<>>

\* (?:\s+on)?\s+  -- the position after it, 0 when it does not match at i.
\* Without the optional part the square would have to start at "on".
ON(t, i) ==
    LET s == SpacesEnd(t, i)
        withOn == IF s # 0 /\ LitAt(t, s, <<"o","n">>, TRUE)
                  THEN SpacesEnd(t, s + 2) ELSE 0
    IN IF withOn # 0 THEN withOn ELSE s

\* the first of two attempts that matches (an optional part is tried before
\* the pattern without it)
first_ok(m1, m2) == IF m1.ok THEN m1 ELSE m2

\* _SQ at position o, after the piece word w found at j
ref_square(t, j, w, o) ==
    IF o # 0 /\ SquareAt(t, o, TRUE)
    THEN [ok |-> TRUE, piece |-> SubSeq(t, j, j + Len(w) - 1),
          square |-> SubSeq(t, o, o + 1), end |-> o + 2]
    ELSE NoMatch

\* _ON + _SQ after the piece word w found at j
ref_after_word(t, j, w) ==
    IF w = <<>> THEN NoMatch ELSE ref_square(t, j, w, ON(t, j + Len(w)))

\* _PIECE_WORD + _ON + _SQ at position j
ref_core(t, j) == ref_after_word(t, j, PIECE_WORD(t, j))

\* _ARTICLE + _PIECE_WORD + _ON + _SQ at position j, the article ending at a
ref_after_article(t, j, a) ==
    first_ok(IF a # 0 THEN ref_core(t, a) ELSE NoMatch, ref_core(t, j))

ref_tail(t, j) == ref_after_article(t, j, ARTICLE(t, j))

\* the whole pattern at position i, the colour prefix ending at c
ref_after_color(t, i, c) ==
    first_ok(IF c # 0 THEN ref_tail(t, c) ELSE NoMatch, ref_tail(t, i))

\* PIECE_REF_PATTERN matched at position i (re.IGNORECASE)
PIECE_REF_PATTERN(t, i) == ref_after_color(t, i, COLOR_PREFIX(t, i))

\* SAN_PIECE_PATTERN matched at position i (case-sensitive)
SAN_PIECE_PATTERN(t, i) ==
    IF /\ (i = 1 \/ ~IsAlpha(t[i - 1]))
       /\ i + 2 <= Len(t)
       /\ t[i] \in {"K", "Q", "R", "B", "N", "P"}
       /\ SquareAt(t, i + 1, FALSE)
       /\ (i + 3 > Len(t) \/ ~IsAlpha(t[i + 3]))
    THEN [ok |-> TRUE, symbol |-> t[i],
          square |-> SubSeq(t, i + 1, i + 2), end |-> i + 3]
    ELSE NoMatch

\* PIECE_REF_PATTERN.finditer(text) from position i on; m is the attempt at i
RECURSIVE finditer_ref(_, _)
finditer_ref_from(t, i, m) ==
    IF m.ok THEN <<m>> \o finditer_ref(t, m.end) ELSE finditer_ref(t, i + 1)
finditer_ref(t, i) ==
    IF i > Len(t) THEN <<>> ELSE finditer_ref_from(t, i, PIECE_REF_PATTERN(t, i))

\* SAN_PIECE_PATTERN.finditer(text) from position i on; m is the attempt at i
RECURSIVE finditer_san(_, _)
finditer_san_from(t, i, m) ==
    IF m.ok THEN <<m>> \o finditer_san(t, m.end) ELSE finditer_san(t, i + 1)
finditer_san(t, i) ==
    IF i > Len(t) THEN <<>> ELSE finditer_san_from(t, i, SAN_PIECE_PATTERN(t, i))

san_letter_to_name ==
    ("K" :> W_king) @@ ("Q" :> W_queen) @@ ("R" :> W_rook) @@
    ("B" :> W_bishop) @@ ("N" :> W_knight) @@ ("P" :> W_pawn)

\* append_unseen, were every key appended, seen or not
append_every(results, keys) == results \o keys

\* the `if key not in seen: seen.add(key); results.append(key)` loop
RECURSIVE append_unseen(_, _)
append_unseen(results, keys) ==
    IF keys = <<>> THEN results
    ELSE append_unseen(
            IF \E k \in DOMAIN results : results[k] = Head(keys)
            THEN results ELSE Append(results, Head(keys)),
            Tail(keys))

\* the keys (piece, sq) of the natural-language matches
ref_keys(ms) ==
    [k \in DOMAIN ms |-> <<Lower(ms[k].piece), Lower(ms[k].square)>>]

\* the keys (piece, sq) of the SAN-style matches
san_keys(ms) ==
    [k \in DOMAIN ms |->
        <<san_letter_to_name[ms[k].symbol], Lower(ms[k].square)>>]

\* extract_piece_refs, were the SAN-style loop to run first
extract_piece_refs_san_first(text) ==
    append_unseen(append_unseen(<<>>, san_keys(finditer_san(text, 1))),
                  ref_keys(finditer_ref(text, 1)))

\* extract_piece_refs(text): the list of (piece name, square) keys
extract_piece_refs(text) ==
    append_unseen(append_unseen(<<>>, ref_keys(finditer_ref(text, 1))),
                  san_keys(finditer_san(text, 1)))

-----------------------------------------------------------------------------
(* evaluator.py: hallucination_score                                       *)

Max(a, b) == IF a >= b THEN a ELSE b

\* is_correct, were it to accept white pieces only
is_correct_white_only(board_piece, piece_type) ==
    /\ board_piece # NoPiece
    /\ board_piece.piece_type = piece_type
    /\ board_piece.color = WHITE

\* `board_piece is not None and board_piece.piece_type == piece_type`
is_correct(board_piece, piece_type) ==
    board_piece # NoPiece /\ board_piece.piece_type = piece_type

\* is_wrong_piece, were its comparison inverted
is_wrong_piece_inverted(board_piece, piece_type) ==
    board_piece # NoPiece /\ board_piece.piece_type = piece_type

\* `board_piece is not None and board_piece.piece_type != piece_type`
is_wrong_piece(board_piece, piece_type) ==
    board_piece # NoPiece /\ board_piece.piece_type # piece_type

\* squares_of_type, were it to look at white pieces only
squares_of_type_white_only(board, piece_type) ==
    pieces(board, piece_type, WHITE)

\* squares_of_type, were it to ignore the piece type
squares_of_type_any_piece(board, piece_type) == DOMAIN board

\* `board.pieces(piece_type, chess.WHITE) | board.pieces(piece_type, chess.BLACK)`
squares_of_type(board, piece_type) ==
    pieces(board, piece_type, WHITE) \cup pieces(board, piece_type, BLACK)

\* worse, were the last score to replace the worst one
worse_last_wins(worst, s) == s

\* `worst = max(worst, score)`
worse(worst, s) == Max(worst, s)

\* the body of the `for piece_name, sq_str in refs` loop: the new worst
score_step(board, ref, worst) ==
    LET piece_type  == PIECE_NAMES_get(ref[1])
        sq          == parse_square(ref[2])
        board_piece == piece_at(board, sq)
    IN IF piece_type = "None" THEN worst
       ELSE IF sq = -1 THEN worst
       ELSE IF is_correct(board_piece, piece_type) THEN worst
       ELSE IF is_wrong_piece(board_piece, piece_type) THEN worse(worst, 1)
       ELSE IF squares_of_type(board, piece_type) # {} THEN worse(worst, 2)
       ELSE worse(worst, 3)

RECURSIVE score_loop(_, _, _)
score_loop(board, refs, worst) ==
    IF refs = <<>> THEN worst
    ELSE score_loop(board, Tail(refs), score_step(board, Head(refs), worst))

\* what a call returns: a value, or the exception that escapes it
Return(v) == [raised |-> "none", value |-> v]
Raise(e)  == [raised |-> e, value |-> -1]

\* the part of hallucination_score after extract_piece_refs
score_refs(board, refs) ==
    IF refs = <<>> THEN Return(0) ELSE Return(score_loop(board, refs, 0))

\* score_on_board, were chess.Board(fen) called outside the try
score_on_board_unguarded(resp, b) ==
    IF ~b.ok THEN Raise("ValueError")
    ELSE score_refs(b.board, extract_piece_refs(resp))

\* the part of hallucination_score after chess.Board(fen)
score_on_board(resp, b) ==
    IF ~b.ok THEN Return(0)
    ELSE score_refs(b.board, extract_piece_refs(resp))

\* hallucination_score(response, fen)
hallucination_score(resp, f) == score_on_board(resp, chess_Board(f))

\* validate_pieces: the body of the `for piece_name, sq_str in piece_refs`
\* loop, TRUE when the loop goes on to the next reference
piece_present(board, ref) ==
    /\ PIECE_NAMES_get(ref[1]) # "None"
    /\ parse_square(ref[2]) # -1
    /\ piece_at(board, parse_square(ref[2])).piece_type = PIECE_NAMES_get(ref[1])

\* validate_pieces after `refs = refs.strip().lower()`
pieces_valid(refs, b, piece_refs) ==
    IF refs = <<>> \/ refs = <<"n","o","n","e">> THEN TRUE
    ELSE IF ~b.ok THEN FALSE
    ELSE \A k \in DOMAIN piece_refs : piece_present(b.board, piece_refs[k])

\* evaluator.validate_pieces(refs, fen)
validate_pieces(refs, f) ==
    pieces_valid(Strip(Lower(refs)), chess_Board(f),
                 extract_piece_refs(Strip(Lower(refs))))

-----------------------------------------------------------------------------
(* Inputs of the scorer                                                    *)

MaxPhrases == 2

SP    == <<" ">>
COMMA == <<",", " ">>
e4    == <<"e", "4">>
e5    == <<"e", "5">>
d1    == <<"d", "1">>

\* the phrases a response is made of
Phrases ==
    { W_knight \o SP \o e4,
      <<"t","h","e"," ","Q","u","e","e","n"," ","o","n"," ">> \o e5,
      <<"w","h","i","t","e","'","s"," ">> \o W_knight \o SP \o e5,
      <<"N">> \o e4,
      <<"Q">> \o e5,
      W_bishop \o <<" ","o","n"," ","E","4">>,
      e4,
      <<"g","o","o","d">> }

RECURSIVE ResponsesUpTo(_)
ResponsesUpTo(n) ==
    IF n = 0 THEN {<<>>}
    ELSE LET shorter == ResponsesUpTo(n - 1)
         IN shorter \cup Phrases
              \cup {r \o COMMA \o p : r \in shorter \ {<<>>}, p \in Phrases}

Responses == ResponsesUpTo(MaxPhrases)

\* the squares of the modelled boards and what may stand on each
BoardSquares == {parse_square(e4), parse_square(e5), parse_square(d1)}
Occupants ==
    { NoPiece,
      [piece_type |-> "KNIGHT", color |-> BLACK],
      [piece_type |-> "QUEEN",  color |-> WHITE] }

\* the piece map of a placement: the occupied squares only
PieceMap(placement) ==
    [sq \in {q \in DOMAIN placement : placement[q] # NoPiece} |-> placement[sq]]

Boards == {PieceMap(pl) : pl \in [BoardSquares -> Occupants]}

Malformed == [decodable |-> FALSE, pieces |-> <<>>]
Positions == {[decodable |-> TRUE, pieces |-> b] : b \in Boards} \cup {Malformed}

-----------------------------------------------------------------------------
(* The scoring session: one response scored against one position           *)

NoText == <<>>

\* Python's None as a parse result; a parsed JSON value is told by its kind
\* (dict, list, str, int, bool), by whether one of a dict's values is a
\* dict or a list, and by the text it was parsed from
PyNone == [kind |-> "None", nested |-> FALSE, text |-> <<>>]

\* how many of the openings of OPENINGS a run of the model goes through
MaxOpenings == 3

\* the ids of the first openings of OPENINGS
OPENING_IDS == <<"vienna", "kings-gambit", "english", "catalan", "reti">>

OPENINGS ==
    SubSeq(OPENING_IDS, 1,
           IF MaxOpenings < Len(OPENING_IDS) THEN MaxOpenings ELSE Len(OPENING_IDS))

OpeningIdSet == {OPENINGS[k] : k \in DOMAIN OPENINGS}

\* before any run of generate_all_openings.main
NoRun ==
    /\ args = [force |-> FALSE, no_resume |-> FALSE]
    /\ openings_to_generate = <<>>
    /\ opening_at = 0
    /\ completed = {}
    /\ loaded = {}
    /\ progress_file = [exists |-> FALSE, completed |-> {}]
    /\ output = [oid \in OpeningIdSet |-> "absent"]
    /\ generated = 0
    /\ skipped = 0
    /\ failed = 0

\* before build_tree has made a node
NoTree ==
    /\ tree = <<>>
    /\ var_at = 0

NothingGenerated ==
    /\ NoRun
    /\ NoTree
    /\ opening = [main_line |-> <<>>, variations |-> <<>>]

\* before any accuracy check of the benchmark scripts
ScriptsIdle ==
    /\ resp2 = NoText
    /\ picked = [resp |-> 0, valid |-> -1, total |-> -1]
    /\ squares = [valid |-> <<>>, invalid |-> <<>>]

NothingChecked ==
    /\ NothingGenerated
    /\ ScriptsIdle

\* before any detection or validate_refs call
DetectIdle ==
    /\ fmt = NoText
    /\ ok = FALSE
    /\ parse_result = PyNone
    /\ fields = [refs |-> <<>>, coaching |-> <<>>, ok |-> FALSE]
    /\ refs_arg = <<>>
    /\ valid = -1
    /\ invalid = -1

NothingDetected ==
    /\ NothingChecked
    /\ DetectIdle

Init ==
    /\ fen \in Positions
    /\ response \in Responses
    /\ pc = "ready"
    /\ score = -1
    /\ raised = "none"
    /\ cleaned = NoText
    /\ rejected = -1
    /\ cleaned2 = NoText
    /\ rejected2 = -1
    /\ kept = <<>>
    /\ all_removed = FALSE
    /\ NothingDetected

\* the caller takes the result of a scoring call
TakeScore(r) == score' = r.value /\ raised' = r.raised

HallucinationScore ==
    /\ pc = "ready"
    /\ TakeScore(hallucination_score(response, fen))
    /\ pc' = "scored"
    /\ UNCHANGED <<fen, response, cleaned, rejected, cleaned2, rejected2,
                   kept, all_removed, detectVars,
                   scriptVars, generatorVars>>

\* validate_pieces(refs, fen), the response being the refs text
ValidatePieces ==
    /\ pc = "ready"
    /\ ok' = validate_pieces(response, fen)
    /\ pc' = "pieces_validated"
    /\ UNCHANGED <<fen, response, score, raised, cleaned, rejected, cleaned2,
                   rejected2, kept, all_removed, fmt, parse_result, fields,
                   refs_arg, valid, invalid,
                   scriptVars, generatorVars>>

Next ==
    \/ HallucinationScore
    \/ ValidatePieces

Spec == Init /\ [][Next]_vars

-----------------------------------------------------------------------------
(* The scorer's properties                                                 *)

\* the claims the extractor finds in the response
Refs == extract_piece_refs(response)

\* the kind a claim names, the piece on its square, whether its kind exists
KindOf(ref) == PIECE_NAMES[ref[1]]
Occupied(ref) == parse_square(ref[2]) \in DOMAIN fen.pieces
OccupantKind(ref) == fen.pieces[parse_square(ref[2])].piece_type
KindExists(kind) == \E sq \in DOMAIN fen.pieces : fen.pieces[sq].piece_type = kind

Scored == pc = "scored" /\ fen.decodable

\* C1: a single claim on an empty square whose kind stands nowhere on the
\* board, for either colour, scores 3.
C1_PhantomScoresThree ==
    Scored =>
        LET refs == Refs
        IN (/\ Len(refs) = 1
            /\ ~Occupied(refs[1])
            /\ ~KindExists(KindOf(refs[1])))
              => (raised = "none" /\ score = 3)

C1_Witness ==
    /\ Scored
    /\ score = 3
    /\ DOMAIN fen.pieces # {}
    /\ LET refs == Refs
       IN /\ Len(refs) = 1
          /\ ~Occupied(refs[1])
          /\ ~KindExists(KindOf(refs[1]))

C3_WrongPieceScoresOne ==
    Scored =>
        LET refs == Refs
        IN (/\ Len(refs) = 1
            /\ Occupied(refs[1])
            /\ OccupantKind(refs[1]) # KindOf(refs[1])
            /\ KindExists(KindOf(refs[1])))
              => (raised = "none" /\ score = 1)

C3_Witness ==
    /\ Scored
    /\ score = 1
    /\ LET refs == Refs
       IN /\ Len(refs) = 1
          /\ Occupied(refs[1])
          /\ OccupantKind(refs[1]) # KindOf(refs[1])
          /\ KindExists(KindOf(refs[1]))

\* C4: when every extracted claim names the kind of the piece that stands
\* on its square (of any colour), the score is 0.
C4_CorrectClaimsScoreZero ==
    Scored =>
        LET refs == Refs
        IN (\A k \in DOMAIN refs :
               Occupied(refs[k]) /\ OccupantKind(refs[k]) = KindOf(refs[k]))
              => (raised = "none" /\ score = 0)

C4_Witness ==
    /\ Scored
    /\ score = 0
    /\ LET refs == Refs
       IN /\ Len(refs) = 2
          /\ \A k \in DOMAIN refs :
                Occupied(refs[k]) /\ OccupantKind(refs[k]) = KindOf(refs[k])
          /\ \E k \in DOMAIN refs :
                fen.pieces[parse_square(refs[k][2])].color = BLACK

\* the severity tier of one claim, as section 4.4 of the design defines it
TierOf(ref) ==
    IF Occupied(ref)
    THEN IF OccupantKind(ref) = KindOf(ref) THEN 0 ELSE 1
    ELSE IF KindExists(KindOf(ref)) THEN 2 ELSE 3

\* the worst tier among the claims, 0 when there is none
WorstTier(refs) ==
    IF refs = <<>> THEN 0
    ELSE CHOOSE m \in 0..3 :
            /\ \E k \in DOMAIN refs : TierOf(refs[k]) = m
            /\ \A k \in DOMAIN refs : TierOf(refs[k]) <= m

\* C5: the score is one of 0..3, it is 0 when no claim is extracted, it is
\* the maximum of the claims' tiers, and the response extended by a further
\* comma-separated phrase (which keeps the claims already there) never
\* scores lower.
C5_ScoreIsWorstTier ==
    pc = "scored" =>
        LET refs == Refs
        IN /\ raised = "none"
           /\ score \in 0..3
           /\ refs = <<>> => score = 0
           /\ fen.decodable => score = WorstTier(refs)
           /\ \A p \in Phrases :
                 hallucination_score(response \o COMMA \o p, fen).value >= score

C5_Witness ==
    /\ Scored
    /\ score = 3
    /\ LET refs == Refs
       IN /\ Len(refs) = 2
          /\ TierOf(refs[1]) = 3
          /\ TierOf(refs[2]) = 1

\* C6: against a position string that cannot be decoded the score is 0 for
\* every response, and no exception escapes.
C6_UndecodableScoresZero ==
    (pc = "scored" /\ ~fen.decodable) => (raised = "none" /\ score = 0)

C6_Witness ==
    /\ pc = "scored" /\ ~fen.decodable
    /\ raised = "none" /\ score = 0
    /\ Len(Refs) = 2

-----------------------------------------------------------------------------
(* Post-validation of the REFS line: bench_shallow_fix.post_validate_refs, *)
(* bench_final_accuracy.post_validate_response and                         *)
(* bench_eco_validation.post_validate                                      *)

L_REFS     == <<"R","E","F","S",":">>
L_COACHING == <<"C","O","A","C","H","I","N","G",":">>
L_THINK    == <<"<","/","t","h","i","n","k",">">>
NL         == <<"\n">>

\* `validated = ["current position"]  # fallback`
FALLBACK == <<"c","u","r","r","e","n","t"," ","p","o","s","i","t","i","o","n">>

\* ^ under re.MULTILINE
AtLineStart(t, i) == i = 1 \/ t[i - 1] = "\n"

\* the last position of the run of characters other than "\n" that holds p
RECURSIVE LineEnd(_, _)
LineEnd(t, p) ==
    IF p + 1 <= Len(t) /\ t[p + 1] # "\n" THEN LineEnd(t, p + 1) ELSE p

\* the last position in a..b that holds no "\n", 0 when there is none
RECURSIVE LastNonNewline(_, _, _)
LastNonNewline(t, a, b) ==
    IF b < a THEN 0
    ELSE IF t[b] # "\n" THEN b
    ELSE LastNonNewline(t, a, b - 1)

\* where (.+) starts after \s* taken from a: q is the end of the greedy run
\* of \s*; when the run reaches the end of the text, \s* gives characters
\* back until (.+) finds one that is not a newline
group_start(t, a, q) == IF q <= Len(t) THEN q ELSE LastNonNewline(t, a, q - 1)

\* the match whose group (.+) starts at p, no match when p = 0
label_group(t, p) ==
    IF p = 0 THEN NoMatch ELSE [ok |-> TRUE, group |-> SubSeq(t, p, LineEnd(t, p))]

\* (?i)^LABEL:\s*(.+) matched at position i
label_at(t, i, label) ==
    IF AtLineStart(t, i) /\ LitAt(t, i, label, TRUE)
    THEN label_group(t, group_start(t, i + Len(label), SkipSpaces(t, i + Len(label))))
    ELSE NoMatch

\* re.search(r"(?i)^LABEL:\s*(.+)", text, re.MULTILINE) from position i on
RECURSIVE label_search(_, _, _)
label_search_from(t, i, label, m) ==
    IF m.ok THEN m ELSE label_search(t, i + 1, label)
label_search(t, i, label) ==
    IF i > Len(t) THEN NoMatch
    ELSE label_search_from(t, i, label, label_at(t, i, label))

refs_search(t)     == label_search(t, 1, L_REFS)
coaching_search(t) == label_search(t, 1, L_COACHING)

\* str.split(","): the pieces between the commas, cur being the open one
RECURSIVE split_comma(_, _, _)
split_comma(t, i, cur) ==
    IF i > Len(t) THEN <<cur>>
    ELSE IF t[i] = "," THEN <<cur>> \o split_comma(t, i + 1, <<>>)
    ELSE split_comma(t, i + 1, Append(cur, t[i]))

\* [r.strip() for r in s.split(",")]
strip_each(fs) == [k \in DOMAIN fs |-> Strip(fs[k])]
raw_refs(s) == strip_each(split_comma(s, 1, <<>>))

\* re.search(r'([a-h][1-8])', ref): where the first square starts, 0 if none
RECURSIVE search_square(_, _)
search_square(ref, i) ==
    IF i + 1 > Len(ref) THEN 0
    ELSE IF SquareAt(ref, i, FALSE) THEN i
    ELSE search_square(ref, i + 1)

\* ', '.join(parts)
RECURSIVE join_comma(_)
join_comma(ps) ==
    IF ps = <<>> THEN <<>>
    ELSE IF Len(ps) = 1 THEN ps[1]
    ELSE ps[1] \o COMMA \o join_comma(Tail(ps))

\* keeps, were the `else: validated.append(ref)` branch missing
keeps_only_checked(board, ref, p) ==
    IF p # 0
    THEN piece_at(board, parse_square(SubSeq(ref, p, p + 1))) # NoPiece
    ELSE FALSE

\* whether the loop keeps ref, its first square starting at p (0: none)
keeps(board, ref, p) ==
    IF p # 0
    THEN piece_at(board, parse_square(SubSeq(ref, p, p + 1))) # NoPiece
    ELSE TRUE

\* the `for ref in raw_refs` loop: the fragments kept and the count rejected
RECURSIVE validate_loop(_, _, _, _)
\* validate_next, were a dropped fragment not counted
validate_next_uncounted(board, refs, validated, n, keep) ==
    validate_loop(board, Tail(refs),
                  IF keep THEN Append(validated, Head(refs)) ELSE validated,
                  n)
validate_next(board, refs, validated, n, keep) ==
    validate_loop(board, Tail(refs),
                  IF keep THEN Append(validated, Head(refs)) ELSE validated,
                  IF keep THEN n ELSE n + 1)
validate_loop(board, refs, validated, n) ==
    IF refs = <<>> THEN [validated |-> validated, rejected |-> n]
    ELSE validate_next(board, refs, validated, n,
                       keeps(board, Head(refs), search_square(Head(refs), 1)))

\* with_fallback, were the fallback never substituted
with_fallback_missing(validated) == validated

\* `if not validated: validated = ["current position"]`
with_fallback(validated) ==
    IF validated = <<>> THEN <<FALLBACK>> ELSE validated

\* what a post-validation call returns
Cleaned(text, n, v, all) ==
    [raised |-> "none", text |-> text, rejected |-> n, kept |-> v,
     all_removed |-> all]
CleanRaise(e) ==
    [raised |-> e, text |-> <<>>, rejected |-> -1, kept |-> <<>>,
     all_removed |-> FALSE]

\* post_validate_refs: the return after the loop, v being the loop's result
refs_cleaned(v, coaching) ==
    Cleaned(L_REFS \o SP \o join_comma(with_fallback(v.validated))
               \o NL \o L_COACHING \o SP \o coaching,
            v.rejected, v.validated, FALSE)

\* post_validate_refs after the two re.search calls
refs_matched(board, text, refs_match, coaching_match) ==
    IF ~refs_match.ok \/ ~coaching_match.ok
    THEN Cleaned(text, 0, <<>>, FALSE)
    ELSE refs_cleaned(validate_loop(board, raw_refs(refs_match.group), <<>>, 0),
                      coaching_match.group)

\* post_validate_refs after chess.Board(fen), which no try surrounds
refs_on_board(text, b) ==
    IF ~b.ok THEN CleanRaise("ValueError")
    ELSE refs_matched(b.board, text, refs_search(text), coaching_search(text))

\* bench_shallow_fix.post_validate_refs(text, fen)
post_validate_refs(text, f) == refs_on_board(text, chess_Board(f))

\* re.search(r"</think>\s*", t): the position after the match, 0 if none
think_end(t, i) ==
    IF \A k \in i..Len(t) : ~LitAt(t, k, L_THINK, FALSE) THEN 0
    ELSE SkipSpaces(t, Len(L_THINK) +
            (CHOOSE k \in i..Len(t) :
                /\ LitAt(t, k, L_THINK, FALSE)
                /\ \A m \in i..(k - 1) : ~LitAt(t, m, L_THINK, FALSE)))

\* strip_think(t), e being the end of the </think> match
strip_after(t, e) ==
    IF e # 0 THEN Strip(SubSeq(t, e, Len(t))) ELSE Strip(t)
strip_think(t) == strip_after(t, think_end(t, 1))

\* `refs_raw = refs_m.group(1).strip() if refs_m else ""`
group_or_empty(m) == IF m.ok THEN Strip(m.group) ELSE <<>>

\* extract_refs_and_coaching(text): refs_raw
refs_raw_of(text) == group_or_empty(refs_search(strip_think(text)))

\* post_validate_response: the return after the loop
response_cleaned(v) ==
    Cleaned(<<>>, v.rejected, v.validated,
            Len(v.validated) = 0 /\ v.rejected > 0)

\* post_validate_response after chess.Board(fen), which no try surrounds
response_on_board(refs_raw, b) ==
    IF ~b.ok THEN CleanRaise("ValueError")
    ELSE response_cleaned(validate_loop(b.board, raw_refs(refs_raw), <<>>, 0))

\* bench_final_accuracy.post_validate_response(ref_squares, refs_raw,
\* coaching, fen); ref_squares and coaching are not read by it
post_validate_response(refs_raw, f) == response_on_board(refs_raw, chess_Board(f))

\* post_validate: the return after the loop, the count alone
count_rejected(v) == Cleaned(<<>>, v.rejected, <<>>, FALSE)

\* post_validate after the re.search call
count_matched(board, refs_match) ==
    IF ~refs_match.ok THEN Cleaned(<<>>, 0, <<>>, FALSE)
    ELSE count_rejected(validate_loop(board, raw_refs(refs_match.group), <<>>, 0))

\* post_validate after chess.Board(fen), which no try surrounds
count_on_board(text, b) ==
    IF ~b.ok THEN CleanRaise("ValueError")
    ELSE count_matched(b.board, refs_search(text))

\* bench_eco_validation.post_validate(text, fen)
post_validate(text, f) == count_on_board(text, chess_Board(f))

\* what validate_refs returns, or the exception that escapes it
Counted(v, iv) == [raised |-> "none", valid |-> v, invalid |-> iv]

\* validate_refs: the `for sq_str, expected_kind in refs` loop
RECURSIVE validate_refs_loop(_, _, _, _)
\* validate_refs_loop, were the expected kind never compared
validate_refs_loop_any_piece(board, refs, v, iv) ==
    IF refs = <<>> THEN Counted(v, iv)
    ELSE IF piece_at(board, parse_square(Head(refs)[1])) = NoPiece
    THEN validate_refs_loop(board, Tail(refs), v, iv + 1)
    ELSE validate_refs_loop(board, Tail(refs), v + 1, iv)
validate_refs_loop(board, refs, v, iv) ==
    IF refs = <<>> THEN Counted(v, iv)
    ELSE LET piece == piece_at(board, parse_square(Head(refs)[1]))
             expected_kind == Head(refs)[2]
             actual == [PAWN |-> "p", KNIGHT |-> "n", BISHOP |-> "b",
                        ROOK |-> "r", QUEEN |-> "q", KING |-> "k"]
         IN  IF piece = NoPiece
             THEN validate_refs_loop(board, Tail(refs), v, iv + 1)
             ELSE IF expected_kind # "None" /\ actual[piece.piece_type] # expected_kind
             THEN validate_refs_loop(board, Tail(refs), v, iv + 1)
             ELSE validate_refs_loop(board, Tail(refs), v + 1, iv)

\* bench_m4.validate_refs(refs, fen): chess.Board(fen) stands before the
\* loop and no try surrounds it
validate_refs(refs, f) ==
    IF ~chess_Board(f).ok
    THEN [raised |-> "ValueError", valid |-> -1, invalid |-> -1]
    ELSE validate_refs_loop(chess_Board(f).board, refs, 0, 0)

-----------------------------------------------------------------------------
(* Inputs of the post-validation                                           *)

MaxRefTokens == 3

g9 == <<"g", "9">>
CENTRAL_FILES == <<"c","e","n","t","r","a","l"," ","f","i","l","e","s">>

\* what the REFS line of a response is made of
RefTokens == {e4, e5, g9, <<",">>, SP, CENTRAL_FILES}

RECURSIVE RefsUpTo(_)
RefsUpTo(n) ==
    IF n = 0 THEN {<<>>}
    ELSE LET shorter == RefsUpTo(n - 1)
         IN shorter \cup {r \o tok : r \in shorter, tok \in RefTokens}

\* what follows the REFS line: a COACHING line, or nothing
Coachings ==
    { NL \o L_COACHING \o SP \o <<"o","k">>,
      NL \o L_COACHING \o SP \o <<"p","u","s","h"," ">> \o e5,
      <<>> }

\* the model's answer as the benchmark loop receives it from call_model,
\* which strips it
FilterResponses ==
    {strip_think(L_REFS \o SP \o r \o c) : r \in RefsUpTo(MaxRefTokens), c \in Coachings}

\* the positions: a pawn or nothing on each of e4 and e5
FilterBoards ==
    {PieceMap(pl) :
        pl \in [{parse_square(e4), parse_square(e5)} ->
                   {NoPiece, [piece_type |-> "PAWN", color |-> WHITE]}]}

\* non-empty lists such as bench_m4.parse_refs returns: (square, piece kind
\* or None); run_benchmark calls validate_refs under `if refs:`
RefLists ==
    { << <<e4, "None">> >>,
      << <<e5, "None">> >>,
      << <<e4, "p">> >>,
      << <<e5, "n">> >>,
      << <<e4, "None">>, <<e5, "p">> >>,
      << <<e5, "None">>, <<e4, "n">> >> }

FilterPositions ==
    {[decodable |-> TRUE, pieces |-> b] : b \in FilterBoards} \cup {Malformed}

-----------------------------------------------------------------------------
(* The post-validation session: one response cleaned against one position *)

FilterInit ==
    /\ fen \in FilterPositions
    /\ response \in FilterResponses
    /\ pc = "ready"
    /\ score = -1
    /\ raised = "none"
    /\ cleaned = NoText
    /\ rejected = -1
    /\ cleaned2 = NoText
    /\ rejected2 = -1
    /\ kept = <<>>
    /\ all_removed = FALSE
    /\ NothingDetected

\* the caller takes the result of a post-validation call
TakeCleaned(r) ==
    /\ raised' = r.raised
    /\ cleaned' = r.text
    /\ rejected' = r.rejected
    /\ kept' = r.kept
    /\ all_removed' = r.all_removed

\* the caller takes the result of the second post_validate_refs call
TakeCleanedAgain(r) ==
    /\ raised' = r.raised
    /\ cleaned2' = r.text
    /\ rejected2' = r.rejected

\* bench_shallow_fix: post_validate_refs(resp, pos["fen"])
PostValidateRefs ==
    /\ pc = "ready"
    /\ TakeCleaned(post_validate_refs(response, fen))
    /\ pc' = "cleaned"
    /\ UNCHANGED <<fen, response, score, cleaned2, rejected2, detectVars,
                   scriptVars, generatorVars>>

\* post_validate_refs applied to the text it returned
PostValidateRefsAgain ==
    /\ pc = "cleaned"
    /\ raised = "none"
    /\ TakeCleanedAgain(post_validate_refs(cleaned, fen))
    /\ pc' = "recleaned"
    /\ UNCHANGED <<fen, response, score, cleaned, rejected, kept, all_removed,
                 detectVars,
                   scriptVars, generatorVars>>

\* bench_final_accuracy: extract_refs_and_coaching(resp), then
\* post_validate_response(ref_squares, refs_raw, coaching, fen)
PostValidateResponse ==
    /\ pc = "ready"
    /\ TakeCleaned(post_validate_response(refs_raw_of(response), fen))
    /\ pc' = "response_cleaned"
    /\ UNCHANGED <<fen, response, score, cleaned2, rejected2, detectVars,
                   scriptVars, generatorVars>>

\* bench_eco_validation: post_validate(resp, pos["fen"])
PostValidate ==
    /\ pc = "ready"
    /\ TakeCleaned(post_validate(response, fen))
    /\ pc' = "counted"
    /\ UNCHANGED <<fen, response, score, cleaned2, rejected2, detectVars,
                   scriptVars, generatorVars>>

\* bench_m4: validate_refs(refs, pos.fen)
ValidateRefs ==
    /\ pc = "ready"
    /\ \E refs \in RefLists :
          /\ refs_arg' = refs
          /\ raised' = validate_refs(refs, fen).raised
          /\ valid' = validate_refs(refs, fen).valid
          /\ invalid' = validate_refs(refs, fen).invalid
    /\ pc' = "validated"
    /\ UNCHANGED <<fen, response, score, cleaned, rejected, cleaned2, rejected2,
                   kept, all_removed, fmt, ok, parse_result, fields,
                   scriptVars, generatorVars>>

FilterNext ==
    \/ ValidateRefs
    \/ PostValidateRefs
    \/ PostValidateRefsAgain
    \/ PostValidateResponse
    \/ PostValidate

FilterSpec == FilterInit /\ [][FilterNext]_vars

-----------------------------------------------------------------------------
(* The post-validation's properties                                        *)

\* both label lines were found, so post_validate_refs went through the loop
Matched == refs_search(response).ok /\ coaching_search(response).ok

\* the comma-separated fragments of the raw refs, as each function reads them
RefsFragments     == raw_refs(refs_search(response).group)
ResponseFragments == raw_refs(refs_raw_of(response))

\* the [a-h][1-8] tokens of a fragment
SquarePositions(fr) == {i \in 1..(Len(fr) - 1) : SquareAt(fr, i, FALSE)}
HasSquare(fr) == SquarePositions(fr) # {}
HasNoSquare(fr) == ~HasSquare(fr)
OccupiedAt(fr, i) == parse_square(SubSeq(fr, i, i + 1)) \in DOMAIN fen.pieces

\* the fragment names an empty square: its first token is not occupied
NamesEmptySquare(fr) ==
    /\ HasSquare(fr)
    /\ \E i \in SquarePositions(fr) :
          /\ \A j \in SquarePositions(fr) : i <= j
          /\ ~OccupiedAt(fr, i)

AllRejected(frs) == \A k \in DOMAIN frs : NamesEmptySquare(frs[k])

\* C7: after a post-validation every square token left in a kept fragment
\* names an occupied square, also in fragments with more than one token.
C7_DeliveredSquaresOccupied ==
    (/\ raised = "none"
     /\ \/ pc = "cleaned" /\ Matched
        \/ pc = "response_cleaned")
        => \A k \in DOMAIN kept :
              \A i \in SquarePositions(kept[k]) : OccupiedAt(kept[k], i)

\* C8: post_validate_refs applied to its own output returns that output
\* again and rejects nothing.
C8_Idempotent ==
    pc = "recleaned" =>
        (raised = "none" /\ cleaned2 = cleaned /\ rejected2 = 0)

\* the text post_validate_refs returns when it substitutes the fallback
FallbackText ==
    L_REFS \o SP \o FALLBACK \o NL \o L_COACHING \o SP
        \o coaching_search(response).group

\* C9 as stated: whenever every fragment is rejected, the fallback value is
\* delivered in place of the refs and the delivered list is not empty, in
\* post_validate_refs and in post_validate_response.
C9_FallbackEverywhere ==
    /\ (pc = "cleaned" /\ raised = "none" /\ Matched /\ AllRejected(RefsFragments))
          => cleaned = FallbackText
    /\ (pc = "response_cleaned" /\ raised = "none" /\ AllRejected(ResponseFragments))
          => kept # <<>>

\* C9 as amended: when every fragment is rejected, post_validate_refs
\* returns "current position" as the only ref, while post_validate_response
\* substitutes nothing: it returns the empty list and all_removed = True.
C9_FallbackInPostValidateRefs ==
    /\ (pc = "cleaned" /\ raised = "none" /\ Matched /\ AllRejected(RefsFragments))
          => (cleaned = FallbackText /\ rejected = Len(RefsFragments))
    /\ (pc = "response_cleaned" /\ raised = "none" /\ AllRejected(ResponseFragments))
          => (kept = <<>> /\ all_removed /\ rejected = Len(ResponseFragments))

C9_Witness ==
    /\ pc = "cleaned" /\ raised = "none" /\ Matched
    /\ Len(RefsFragments) = 2
    /\ AllRejected(RefsFragments)
    /\ cleaned = FallbackText

\* how many fragments name an empty square
RECURSIVE CountEmpty(_)
CountEmpty(frs) ==
    IF frs = <<>> THEN 0
    ELSE (IF NamesEmptySquare(Head(frs)) THEN 1 ELSE 0) + CountEmpty(Tail(frs))

\* C10: the fragments without a square token, "g9" and "central files"
\* among them, are all kept, unchanged and in their order, whatever the
\* board holds, and only fragments that name an empty square are counted
\* as rejected.
C10_NoSquareFragmentsKept ==
    /\ (pc = "cleaned" /\ raised = "none" /\ Matched)
          => /\ SelectSeq(kept, HasNoSquare) = SelectSeq(RefsFragments, HasNoSquare)
             /\ rejected = CountEmpty(RefsFragments)
    /\ (pc = "counted" /\ raised = "none" /\ refs_search(response).ok)
          => rejected = CountEmpty(RefsFragments)

C10_Witness ==
    /\ pc = "cleaned" /\ raised = "none" /\ Matched
    /\ \E k \in DOMAIN RefsFragments : NamesEmptySquare(RefsFragments[k])
    /\ \E k \in DOMAIN kept : kept[k] = g9
    /\ rejected = 1

\* the fragment is not rejected: it names no square, or an occupied one first
NotRejected(fr) == ~NamesEmptySquare(fr)

\* C28: the fragments kept (before the fallback) and the rejected count add
\* up to the number of comma-separated fragments, the kept fragments are the
\* others in their input order, and post_validate_refs,
\* post_validate_response and post_validate report the same rejected count
\* for the same refs and position.
C28_FragmentsConserved ==
    /\ (pc = "cleaned" /\ raised = "none" /\ Matched)
          => /\ Len(kept) + rejected = Len(RefsFragments)
             /\ kept = SelectSeq(RefsFragments, NotRejected)
             /\ rejected = post_validate(response, fen).rejected
             /\ rejected = post_validate_response(refs_raw_of(response), fen).rejected
    /\ (pc = "response_cleaned" /\ raised = "none" /\ refs_search(response).ok)
          => /\ Len(kept) + rejected = Len(ResponseFragments)
             /\ kept = SelectSeq(ResponseFragments, NotRejected)
             /\ rejected = post_validate(response, fen).rejected

\* two fragments, the first rejected and the second kept
C28_Witness ==
    /\ pc = "cleaned" /\ raised = "none" /\ Matched
    /\ Len(RefsFragments) = 2
    /\ NamesEmptySquare(RefsFragments[1])
    /\ kept = <<RefsFragments[2]>>
    /\ rejected = 1

-----------------------------------------------------------------------------
(* json.loads, as far as the detection reads its result: whether the text  *)
(* decodes, the kind of the decoded value and whether a dict holds a dict  *)
(* or a list as a value                                                    *)

DIGITS == {"0","1","2","3","4","5","6","7","8","9"}
HEX == DIGITS \cup {"a","b","c","d","e","f","A","B","C","D","E","F"}

\* the first position from i on that holds a character of S, Len(t) + 1
\* when there is none
NextIn(t, i, S) ==
    CHOOSE k \in i..(Len(t) + 1) :
        /\ k > Len(t) \/ t[k] \in S
        /\ \A m \in i..(k - 1) : t[m] \notin S

\* a string's characters from position j on: the position after the closing
\* quote, 0 when the string does not end or holds a control character or a
\* wrong escape
RECURSIVE json_string_end(_, _)
json_string_end(t, j) ==
    LET n == NextIn(t, j, {"\"", "\\", "\n", "\t", "\r"})
    IN  IF n > Len(t) THEN 0
        ELSE IF t[n] = "\"" THEN n + 1
        ELSE IF t[n] # "\\" THEN 0
        ELSE IF n + 1 > Len(t) THEN 0
        ELSE IF t[n + 1] \in {"\"", "\\", "/", "b", "f", "n", "r", "t"}
             THEN json_string_end(t, n + 2)
        ELSE IF /\ t[n + 1] = "u"
                /\ n + 5 <= Len(t)
                /\ \A k \in (n + 2)..(n + 5) : t[k] \in HEX
             THEN json_string_end(t, n + 6)
        ELSE 0

\* [S]* from position i: the position after the run of characters of S
RECURSIVE RunEnd(_, _, _)
RunEnd(t, i, S) ==
    IF i <= Len(t) /\ t[i] \in S THEN RunEnd(t, i + 1, S) ELSE i

\* a string, number or literal starting at position i: the position after
\* it, 0 when there is none (a number is -?(0|[1-9]\d*)(\.\d+)?([eE][+-]?\d+)?)
json_scalar_end(t, i) ==
    LET HasDigit(k) == k <= Len(t) /\ t[k] \in DIGITS
        Is(k, c) == k <= Len(t) /\ t[k] = c
        first == IF t[i] = "-" THEN i + 1 ELSE i
        int == IF Is(first, "0") THEN first + 1
               ELSE IF HasDigit(first) THEN RunEnd(t, first, DIGITS) ELSE 0
        frac == IF int # 0 /\ Is(int, ".") /\ HasDigit(int + 1)
                THEN RunEnd(t, int + 1, DIGITS) ELSE int
        sign == IF Is(frac + 1, "+") \/ Is(frac + 1, "-") THEN frac + 2 ELSE frac + 1
    IN  IF t[i] = "\"" THEN json_string_end(t, i + 1)
        ELSE IF LitAt(t, i, <<"t","r","u","e">>, FALSE) THEN i + 4
        ELSE IF LitAt(t, i, <<"f","a","l","s","e">>, FALSE) THEN i + 5
        ELSE IF LitAt(t, i, <<"n","u","l","l">>, FALSE) THEN i + 4
        ELSE IF LitAt(t, i, <<"N","a","N">>, FALSE) THEN i + 3
        ELSE IF LitAt(t, i, <<"I","n","f","i","n","i","t","y">>, FALSE) THEN i + 8
        ELSE IF LitAt(t, i, <<"-","I","n","f","i","n","i","t","y">>, FALSE) THEN i + 9
        ELSE IF frac = 0 THEN 0
        ELSE IF (Is(frac, "e") \/ Is(frac, "E")) /\ HasDigit(sign)
             THEN RunEnd(t, sign, DIGITS)
        ELSE frac

\* one step of the decoder at character c.i: c.stack holds the open
\* brackets, c.expect what may come next, c.nested whether a dict or a list
\* was opened as a value of the outermost dict
json_step(t, c) ==
    LET ch == t[c.i]
        top == IF c.stack = <<>> THEN "" ELSE c.stack[Len(c.stack)]
        fail == [c EXCEPT !.ok = FALSE]
        After(j, stack) ==
            IF j = 0 THEN fail
            ELSE [c EXCEPT !.i = j, !.stack = stack,
                           !.expect = IF stack = <<>> THEN "end"
                                      ELSE "comma_or_close"]
        pop == After(c.i + 1, SubSeq(c.stack, 1, Len(c.stack) - 1))
    IN  IF IsSpace(ch) THEN [c EXCEPT !.i = @ + 1]
        ELSE IF c.expect \in {"value", "value_or_close"} THEN
            IF ch = "]" THEN (IF c.expect = "value_or_close" THEN pop ELSE fail)
            ELSE IF ch \in {"{", "["} THEN
                [c EXCEPT !.i = @ + 1, !.stack = Append(@, ch),
                          !.expect = IF ch = "{" THEN "key_or_close"
                                     ELSE "value_or_close",
                          !.nested = @ \/ c.stack = <<"{">>]
            ELSE After(json_scalar_end(t, c.i), c.stack)
        ELSE IF c.expect \in {"key", "key_or_close"} THEN
            IF ch = "}" THEN (IF c.expect = "key_or_close" THEN pop ELSE fail)
            ELSE IF ch = "\"" /\ json_string_end(t, c.i + 1) # 0
                 THEN [c EXCEPT !.i = json_string_end(t, c.i + 1),
                                !.expect = "colon"]
            ELSE fail
        ELSE IF c.expect = "colon" THEN
            IF ch = ":" THEN [c EXCEPT !.i = @ + 1, !.expect = "value"] ELSE fail
        ELSE IF c.expect = "comma_or_close" THEN
            IF ch = "," THEN [c EXCEPT !.i = @ + 1,
                                       !.expect = IF top = "{" THEN "key" ELSE "value"]
            ELSE IF (ch = "}" /\ top = "{") \/ (ch = "]" /\ top = "[") THEN pop
            ELSE fail
        ELSE fail

\* the decoder run to the end of the text: whether all of it is one value
RECURSIVE json_scan(_, _)
json_scan(t, c) ==
    IF ~c.ok THEN c
    ELSE IF c.i > Len(t) THEN [c EXCEPT !.ok = (c.expect = "end")]
    ELSE json_scan(t, json_step(t, c))

\* what json.loads raises on a text that is not one JSON value
JSONDecodeError == [kind |-> "JSONDecodeError", nested |-> FALSE, text |-> <<>>]

\* the decoded value of s, r being the decoder's final state
json_value(s, first, r) ==
    IF ~r.ok THEN JSONDecodeError
    ELSE IF first = "n" THEN PyNone
    ELSE [kind |-> IF first = "{" THEN "dict"
                   ELSE IF first = "[" THEN "list"
                   ELSE IF first = "\"" THEN "str"
                   ELSE IF first \in {"t", "f"} THEN "bool"
                   ELSE "number",
          nested |-> r.nested, text |-> s]

\* json.loads(s) for a stripped s
json_loads(s) ==
    json_value(s, IF s = <<>> THEN "" ELSE s[1],
               json_scan(s, [i |-> 1, stack |-> <<>>, expect |-> "value",
                             nested |-> FALSE, ok |-> TRUE]))

-----------------------------------------------------------------------------
(* evaluator.parse_json_response                                           *)

\* the character U+0060, which a TLA+ string cannot hold, and the fence ```
BACKTICK == "U+0060"
FENCE == <<BACKTICK, BACKTICK, BACKTICK>>

\* str.find(w) from position i on: where w starts, 0 when it does not occur
Find(t, i, w) ==
    IF \A k \in i..Len(t) : ~LitAt(t, k, w, FALSE) THEN 0
    ELSE CHOOSE k \in i..Len(t) :
            /\ LitAt(t, k, w, FALSE)
            /\ \A m \in i..(k - 1) : ~LitAt(t, m, w, FALSE)

\* re.search of the fence pattern ```(?:json)?\s*\n? group ``` in response,
\* under re.DOTALL, the group being lazy: i is the first fence, q where the
\* group starts after (?:json)?\s*\n?, j the next fence from q on
fence_search(t) ==
    LET i == Find(t, 1, FENCE)
        q == SkipSpaces(t, IF LitAt(t, i + 3, <<"j","s","o","n">>, FALSE)
                           THEN i + 7 ELSE i + 3)
        j == Find(t, q, FENCE)
    IN  IF i = 0 \/ j = 0 THEN NoMatch
        ELSE [ok |-> TRUE, group |-> SubSeq(t, q, j - 1)]

\* `for i, ch in enumerate(response)`: the first balanced {...} that
\* decodes, JSONDecodeError standing for a loop that ends without a return;
\* the characters that are no brace leave depth and start as they are, so
\* the scan goes from one brace to the next
RECURSIVE brace_scan(_, _, _, _)
brace_try(t, i, v) ==
    IF v.kind # "JSONDecodeError" THEN v ELSE brace_scan(t, i + 1, 0, 0)
brace_scan(t, i, depth, start) ==
    LET n == NextIn(t, i, {"{", "}"})
    IN  IF n > Len(t) THEN JSONDecodeError
        ELSE IF t[n] = "{"
             THEN brace_scan(t, n + 1, depth + 1, IF depth = 0 THEN n ELSE start)
        ELSE IF depth - 1 = 0 /\ start # 0
             THEN brace_try(t, n, json_loads(SubSeq(t, start, n)))
        ELSE brace_scan(t, n + 1, depth - 1, start)

\* `try: return json.loads(...) except: ...`: v unless it is the error
or_else(v, w) == IF v.kind # "JSONDecodeError" THEN v ELSE w

\* the fenced block decoded, JSONDecodeError when there is no fence
fenced_value(m) == IF m.ok THEN json_loads(Strip(m.group)) ELSE JSONDecodeError

\* parse_json_response, were the brace scan tried before the fence
parse_json_response_scan_first(t) ==
    or_else(brace_scan(t, 1, 0, 0),
            or_else(fenced_value(fence_search(t)),
                    or_else(json_loads(Strip(t)), PyNone)))

\* parse_json_response(response): the fence, then the brace scan, then the
\* whole text, then None
parse_json_response(t) ==
    or_else(fenced_value(fence_search(t)),
            or_else(brace_scan(t, 1, 0, 0),
                    or_else(json_loads(Strip(t)), PyNone)))

-----------------------------------------------------------------------------
(* evaluator.parse_refs_coaching and evaluator.format_ok                   *)

W_REFS     == <<"R","E","F","S">>
W_COACHING == <<"C","O","A","C","H","I","N","G">>

\* the label pattern, were it ^WORD: with nothing before the word and a
\* colon right after it
label_colon_strict(t, i, word) ==
    IF AtLineStart(t, i) /\ LitAt(t, i, word \o <<":">>, TRUE)
    THEN i + Len(word) + 1 ELSE 0

\* (?i)^[ \t]*WORD\s*[:=] matched at position i: the position after the
\* colon or equals sign, 0 when it does not match there
label_colon(t, i, word) ==
    LET p == RunEnd(t, i, {" ", "\t"})
        q == SkipSpaces(t, p + Len(word))
    IN  IF /\ AtLineStart(t, i)
           /\ LitAt(t, p, word, TRUE)
           /\ q <= Len(t)
           /\ t[q] \in {":", "="}
        THEN q + 1 ELSE 0

\* re.search of that pattern under re.MULTILINE: the position after the
\* colon of the first line that matches, 0 when no line does
first_label(t, word) ==
    LET at == {i \in DOMAIN t : label_colon(t, i, word) # 0}
    IN  IF at = {} THEN 0
        ELSE label_colon(t, CHOOSE i \in at : \A k \in at : i <= k, word)

\* parse_refs_coaching(response): r and c are where the two labels end
refs_coaching_fields(t, r, c) ==
    LET g == SkipSpaces(t, r)
    IN  [refs |-> IF r = 0 \/ g > Len(t) THEN <<>>
                  ELSE Strip(SubSeq(t, g, LineEnd(t, g))),
         coaching |-> IF c = 0 THEN <<>> ELSE Strip(SubSeq(t, c, Len(t))),
         ok |-> r # 0 /\ c # 0]
parse_refs_coaching(t) ==
    refs_coaching_fields(t, first_label(t, W_REFS), first_label(t, W_COACHING))

\* the format ids of format_ok's docstring and of FORMAT_VARIANTS
FORMAT_IDS ==
    [refs_coaching |-> <<"r","e","f","s","_","c","o","a","c","h","i","n","g">>,
     coaching_only |-> <<"c","o","a","c","h","i","n","g","_","o","n","l","y">>,
     json_flat |-> <<"j","s","o","n","_","f","l","a","t">>,
     json_nested |-> <<"j","s","o","n","_","n","e","s","t","e","d">>,
     xml_tags |-> <<"x","m","l","_","t","a","g","s">>,
     xml_cdata |-> <<"x","m","l","_","c","d","a","t","a">>,
     markdown_headers |-> <<"m","a","r","k","d","o","w","n","_","h","e","a","d","e","r","s">>,
     numbered_lines |-> <<"n","u","m","b","e","r","e","d","_","l","i","n","e","s">>,
     yaml_format |-> <<"y","a","m","l","_","f","o","r","m","a","t">>,
     pipe_delimited |-> <<"p","i","p","e","_","d","e","l","i","m","i","t","e","d">>,
     single_line_json |-> <<"s","i","n","g","l","e","_","l","i","n","e","_","j","s","o","n">>,
     fenced_json |-> <<"f","e","n","c","e","d","_","j","s","o","n">>]

\* re.search(r"(?i)^[ \t]*(?:REFS|COACHING)\s*[:=]", response, re.MULTILINE),
\* were it to look for REFS alone
has_label_refs_only(t) == first_label(t, W_REFS) # 0

\* re.search(r"(?i)^[ \t]*(?:REFS|COACHING)\s*[:=]", response, re.MULTILINE)
has_label(t) == first_label(t, W_REFS) # 0 \/ first_label(t, W_COACHING) # 0

\* the fenced_json pattern, were its closing fence optional
fenced_json_search_unclosed(t) ==
    \E i \in DOMAIN t :
        /\ LitAt(t, i, FENCE, FALSE)
        /\ LET p == SkipSpaces(t, IF LitAt(t, i + 3, <<"j","s","o","n">>, FALSE)
                                  THEN i + 7 ELSE i + 3)
           IN  /\ p <= Len(t)
               /\ t[p] = "{"
               /\ \E k \in (p + 1)..Len(t) : t[k] = "}"

\* re.search(r"```(?:json)?\s*\n?\s*\{.*?\}\s*```", response, re.DOTALL):
\* a fence at i, the brace at p after (?:json)?\s*\n?\s*, a closing brace at
\* k with only white space between it and the next fence
fenced_json_search(t) ==
    \E i \in DOMAIN t :
        /\ LitAt(t, i, FENCE, FALSE)
        /\ LET p == SkipSpaces(t, IF LitAt(t, i + 3, <<"j","s","o","n">>, FALSE)
                                  THEN i + 7 ELSE i + 3)
           IN  /\ p <= Len(t)
               /\ t[p] = "{"
               /\ \E k \in (p + 1)..Len(t) :
                     t[k] = "}" /\ LitAt(t, SkipSpaces(t, k + 1), FENCE, FALSE)

\* format_ok after the strip and the think strip: the chain of branches on
\* fmt, parsed being parse_json_response(response). The two xml branches
\* call xml.etree.ElementTree, which is outside this model: no action below
\* asks for them. The texts hold no line break other than "\n".
format_detect(t, f, parsed) ==
    LET Yes(b) == [raised |-> "none", value |-> b]
        lines == {i \in DOMAIN t : AtLineStart(t, i)}
        \* single_line_json: the text between the first { and the last }
        fenced == fence_search(t)
        json_str == IF fenced.ok THEN Strip(fenced.group) ELSE Strip(t)
        start == Find(json_str, 1, <<"{">>)
        ends == {k \in DOMAIN json_str : json_str[k] = "}"}
        cut == IF start # 0 /\ ends # {}
               THEN SubSeq(json_str, start, CHOOSE k \in ends : \A e \in ends : e <= k)
               ELSE json_str
        \* markdown_headers: ^#{1,6}\s+\S
        Header(i) == \E n \in 1..6 :
                        /\ \A k \in i..(i + n - 1) : k <= Len(t) /\ t[k] = "#"
                        /\ i + n <= Len(t)
                        /\ IsSpace(t[i + n])
                        /\ SkipSpaces(t, i + n) <= Len(t)
        \* numbered_lines: ^\d+[.)]\s on the stripped line
        Numbered(i) == LET p == RunEnd(t, i, {" ", "\t"})
                           d == RunEnd(t, p, DIGITS)
                           e == RunEnd(t, d + 1, {" ", "\t"})
                       IN  /\ d > p
                           /\ d <= Len(t) /\ t[d] \in {".", ")"}
                           /\ e > d + 1
                           /\ e <= Len(t) /\ t[e] # "\n"
        \* yaml_format: ^[a-zA-Z_][\w]*\s*: on the line as it stands
        Yaml(i) == LET w == RunEnd(t, i, UpperSet \cup LowerSet \cup DIGITS \cup {"_"})
                       c == RunEnd(t, w, {" ", "\t"})
                   IN  /\ w > i
                       /\ t[i] \notin DIGITS
                       /\ c <= Len(t) /\ t[c] = ":"
        pipes == {k \in DOMAIN t : t[k] = "|"}
    IN  IF f = FORMAT_IDS.refs_coaching THEN Yes(parse_refs_coaching(t).ok)
        ELSE IF f = FORMAT_IDS.coaching_only THEN Yes(~has_label(t) /\ Len(t) > 0)
        ELSE IF f = FORMAT_IDS.json_flat THEN Yes(parsed # PyNone)
        ELSE IF f = FORMAT_IDS.json_nested THEN
            IF parsed = PyNone THEN Yes(FALSE)
            ELSE IF parsed.kind # "dict"
                 THEN [raised |-> "AttributeError", value |-> FALSE]
            ELSE Yes(parsed.nested)
        ELSE IF f = FORMAT_IDS.single_line_json THEN
            IF parsed = PyNone THEN Yes(FALSE)
            ELSE Yes(\A k \in DOMAIN cut : cut[k] # "\n")
        ELSE IF f = FORMAT_IDS.fenced_json THEN Yes(fenced_json_search(t))
        ELSE IF f = FORMAT_IDS.markdown_headers THEN Yes(\E i \in lines : Header(i))
        ELSE IF f = FORMAT_IDS.numbered_lines
             THEN Yes(Cardinality({i \in lines : Numbered(i)}) >= 2)
        ELSE IF f = FORMAT_IDS.yaml_format
             THEN Yes(Cardinality({i \in lines : Yaml(i)}) >= 2)
        ELSE IF f = FORMAT_IDS.pipe_delimited THEN Yes(Cardinality(pipes) >= 2)
        ELSE Yes(FALSE)

\* format_ok from `if not response: return False` on, t being the text left
\* by the two strips
format_stripped(t, f) ==
    IF t = <<>> THEN [raised |-> "none", value |-> FALSE]
    ELSE format_detect(t, Strip(Lower(f)), parse_json_response(t))

\* format_ok, were the reasoning block left in the text
format_ok_with_think(t, f) == format_stripped(Strip(t), f)

\* format_ok(response, expected_format)
format_ok(t, f) == format_stripped(strip_think(Strip(t)), f)

\* exp1_formats._evaluate_response, the fenced_json branch: format_compliance
\* after the same two strips (any pair of fences makes it True)
evaluate_fenced_json(t) == fence_search(strip_think(Strip(t))).ok

-----------------------------------------------------------------------------
(* Inputs of the format detection                                          *)

\* "example" of each entry of FORMAT_VARIANTS but the two xml ones
EXAMPLES ==
    [
     refs_coaching |->
       <<"R","E","F","S",":"," ","b","i","s","h","o","p"," ","e","5",","," ",
         "p","a","w","n"," ","d","4","\n","C","O","A","C","H","I","N","G",
         ":"," ","T","h","e"," ","b","i","s","h","o","p"," ","o","n"," ","e",
         "5"," ","i","s"," ","v","e","r","y"," ","a","c","t","i","v","e",",",
         " ","t","a","r","g","e","t","i","n","g"," ","t","h","e"," ","w","e",
         "a","k"," ","f","7"," ","p","a","w","n",".">>,
     coaching_only |->
       <<"T","h","e"," ","k","n","i","g","h","t"," ","o","n"," ","f","3"," ",
         "i","s"," ","w","e","l","l","-","p","l","a","c","e","d",","," ","s",
         "u","p","p","o","r","t","i","n","g"," ","a"," ","f","u","t","u","r",
         "e"," ","a","t","t","a","c","k"," ","o","n"," ","t","h","e"," ","k",
         "i","n","g","s","i","d","e",".">>,
     json_flat |->
       <<"{","\"","c","o","a","c","h","i","n","g","\"",":"," ","\"","T","h",
         "e"," ","b","i","s","h","o","p"," ","t","a","r","g","e","t","s"," ",
         "t","h","e"," ","w","e","a","k"," ","f","7"," ","p","a","w","n",".",
         "\"",","," ","\"","r","e","f","s","\"",":"," ","[","\"","b","i","s",
         "h","o","p"," ","e","5","\"",","," ","\"","p","a","w","n"," ","d",
         "4","\"","]","}">>,
     json_nested |->
       <<"{","\"","c","o","a","c","h","i","n","g","\"",":"," ","\"","T","h",
         "e"," ","b","i","s","h","o","p"," ","i","s"," ","v","e","r","y"," ",
         "a","c","t","i","v","e",".","\"",","," ","\"","r","e","f","s","\"",
         ":"," ","[","\"","b","i","s","h","o","p"," ","e","5","\"","]",",",
         " ","\"","q","u","a","l","i","t","y","\"",":"," ","\"","g","o","o",
         "d","\"","}">>,
     markdown_headers |->
       <<"#","#"," ","R","e","f","s","\n","b","i","s","h","o","p"," ","e",
         "5",","," ","p","a","w","n"," ","d","4","\n","\n","#","#"," ","C",
         "o","a","c","h","i","n","g","\n","T","h","e"," ","b","i","s","h",
         "o","p"," ","t","a","r","g","e","t","s"," ","t","h","e"," ","w","e",
         "a","k"," ","f","7"," ","p","a","w","n",".">>,
     numbered_lines |->
       <<"1","."," ","R","E","F","S",":"," ","b","i","s","h","o","p"," ","e",
         "5",","," ","p","a","w","n"," ","d","4","\n","2","."," ","C","O",
         "A","C","H","I","N","G",":"," ","T","h","e"," ","b","i","s","h","o",
         "p"," ","t","a","r","g","e","t","s"," ","t","h","e"," ","w","e","a",
         "k"," ","f","7"," ","p","a","w","n",".">>,
     yaml_format |->
       <<"r","e","f","s",":","\n"," "," ","-"," ","b","i","s","h","o","p",
         " ","e","5","\n"," "," ","-"," ","p","a","w","n"," ","d","4","\n",
         "c","o","a","c","h","i","n","g",":"," ","T","h","e"," ","b","i","s",
         "h","o","p"," ","t","a","r","g","e","t","s"," ","t","h","e"," ","w",
         "e","a","k"," ","f","7"," ","p","a","w","n",".">>,
     pipe_delimited |->
       <<"b","i","s","h","o","p"," ","e","5",","," ","p","a","w","n"," ","d",
         "4","|","T","h","e"," ","b","i","s","h","o","p"," ","t","a","r","g",
         "e","t","s"," ","t","h","e"," ","w","e","a","k"," ","f","7"," ","p",
         "a","w","n",".">>,
     single_line_json |->
       <<"{","\"","r","\"",":"," ","\"","b","i","s","h","o","p"," ","e","5",
         ","," ","p","a","w","n"," ","d","4","\"",","," ","\"","c","\"",":",
         " ","\"","T","h","e"," ","b","i","s","h","o","p"," ","t","a","r",
         "g","e","t","s"," ","t","h","e"," ","w","e","a","k"," ","f","7"," ",
         "p","a","w","n",".","\"","}">>,
     fenced_json |->
       <<BACKTICK,BACKTICK,BACKTICK,"j","s","o","n","\n","{","\"","c","o",
         "a","c","h","i","n","g","\"",":"," ","\"","T","h","e"," ","b","i",
         "s","h","o","p"," ","t","a","r","g","e","t","s"," ","t","h","e"," ",
         "w","e","a","k"," ","f","7"," ","p","a","w","n",".","\"",","," ",
         "\"","r","e","f","s","\"",":"," ","[","\"","b","i","s","h","o","p",
         " ","e","5","\"",","," ","\"","p","a","w","n"," ","d","4","\"","]",
         "}","\n",BACKTICK,BACKTICK,BACKTICK>>]

MaxTextTokens == 3

\* what a response is made of: JSON values, a fence, a fenced object with a
\* list in it, a stray brace, label lines, the end of a reasoning block and
\* an object that is no JSON for its capitalized boolean
TextTokens ==
    { <<"{","\"","a","\"",":"," ","1","}">>,
      <<"[","1","]">>,
      <<BACKTICK,BACKTICK,BACKTICK,"j","s","o","n","\n","{","\"","b","\"",
        ":"," ","[","2","]","}","\n",BACKTICK,BACKTICK,BACKTICK>>,
      <<"}">>,
      <<"R","E","F","S",":"," ","e","4","\n">>,
      <<"c","o","a","c","h","i","n","g"," ","="," ","o","k">>,
      <<"<","/","t","h","i","n","k",">">>,
      <<"{","\"","a","\"",":"," ","T","r","u","e","}">>,
      FENCE }

RECURSIVE TextsUpTo(_)
TextsUpTo(n) ==
    IF n = 0 THEN {<<>>}
    ELSE LET shorter == TextsUpTo(n - 1)
         IN shorter \cup {r \o tok : r \in shorter, tok \in TextTokens}

FormatResponses ==
    TextsUpTo(MaxTextTokens) \cup {EXAMPLES[id] : id \in DOMAIN EXAMPLES}

\* the expected_format values asked for: the ids of the model, one of them
\* also in upper case with a blank, and an id that format_ok does not know
FormatsAsked ==
    {FORMAT_IDS[id] : id \in DOMAIN EXAMPLES}
        \cup {<<"J","S","O","N","_","N","E","S","T","E","D"," ">>,
              <<"t","o","m","l">>}

-----------------------------------------------------------------------------
(* The detection session: one response, one call                           *)

FormatInit ==
    /\ fen = Malformed
    /\ response \in FormatResponses
    /\ pc = "ready"
    /\ score = -1
    /\ raised = "none"
    /\ cleaned = NoText
    /\ rejected = -1
    /\ cleaned2 = NoText
    /\ rejected2 = -1
    /\ kept = <<>>
    /\ all_removed = FALSE
    /\ NothingDetected

\* the caller takes the result of a format_ok call
TakeDetected(r) == ok' = r.value /\ raised' = r.raised

filterVars == <<fen, response, score, cleaned, rejected, cleaned2, rejected2,
                kept, all_removed>>

\* format_ok(response, expected_format)
FormatOk ==
    /\ pc = "ready"
    /\ \E f \in FormatsAsked :
          /\ fmt' = f
          /\ TakeDetected(format_ok(response, f))
    /\ pc' = "detected"
    /\ UNCHANGED <<filterVars, parse_result, fields, refs_arg, valid, invalid,
                   scriptVars, generatorVars>>

\* parse_json_response(response)
ParseJsonResponse ==
    /\ pc = "ready"
    /\ parse_result' = parse_json_response(response)
    /\ pc' = "parsed"
    /\ UNCHANGED <<filterVars, raised, fmt, ok, fields, refs_arg, valid, invalid,
                   scriptVars, generatorVars>>

\* parse_refs_coaching(response)
ParseRefsCoaching ==
    /\ pc = "ready"
    /\ fields' = parse_refs_coaching(response)
    /\ pc' = "fields_parsed"
    /\ UNCHANGED <<filterVars, raised, fmt, ok, parse_result, refs_arg, valid, invalid,
                   scriptVars, generatorVars>>

\* _evaluate_response(response_text, "fenced_json", position): format_compliance
EvaluateFencedJson ==
    /\ pc = "ready"
    /\ ok' = evaluate_fenced_json(response)
    /\ pc' = "evaluated"
    /\ UNCHANGED <<filterVars, raised, fmt, parse_result, fields, refs_arg, valid, invalid,
                   scriptVars, generatorVars>>

-----------------------------------------------------------------------------
(* exp1_formats._evaluate_response (format_compliance) and                 *)
(* test_thinking_prompts.check_compliance                                  *)

K_refs     == <<"r","e","f","s">>
K_r        == <<"r">>
K_coaching == <<"c","o","a","c","h","i","n","g">>
K_quality  == <<"q","u","a","l","i","t","y">>

\* the strings at the top level of a decoded dict or list, as they are
\* written (no escape is decoded): the keys of a dict, which a colon follows,
\* when keys is TRUE, the other strings when it is FALSE
RECURSIVE top_strings(_, _, _, _)
top_strings_at(t, n, e, depth, keys) ==
    (IF depth = 1 /\ keys = (SkipSpaces(t, e) <= Len(t) /\ t[SkipSpaces(t, e)] = ":")
     THEN {SubSeq(t, n + 1, e - 2)} ELSE {})
        \cup top_strings(t, e, depth, keys)
top_strings_from(t, n, depth, keys) ==
    IF n > Len(t) THEN {}
    ELSE IF t[n] = "\"" THEN top_strings_at(t, n, json_string_end(t, n + 1), depth, keys)
    ELSE IF t[n] \in {"{", "["} THEN top_strings(t, n + 1, depth + 1, keys)
    ELSE top_strings(t, n + 1, depth - 1, keys)
top_strings(t, i, depth, keys) ==
    top_strings_from(t, NextIn(t, i, {"\"", "{", "[", "}", "]"}), depth, keys)

\* `word in parsed` for a decoded dict (a key), list (an element) or str (a
\* substring); the other kinds raise TypeError, see not_iterable
py_in(word, parsed) ==
    IF parsed.kind = "dict" THEN word \in top_strings(parsed.text, 1, 0, TRUE)
    ELSE IF parsed.kind = "list" THEN word \in top_strings(parsed.text, 1, 0, FALSE)
    ELSE parsed.kind = "str" /\ Find(parsed.text, 2, word) \in 2..(Len(parsed.text) - Len(word))

\* `word in parsed` raises TypeError: parsed is a number, a bool or None
not_iterable(parsed) == parsed.kind \in {"number", "bool", "None"}

\* `if parsed:` for a parse result
truthy(parsed) ==
    IF parsed.kind \in {"dict", "list"}
    THEN Strip(SubSeq(parsed.text, 2, Len(parsed.text) - 1)) # <<>>
    ELSE IF parsed.kind = "str" THEN Len(parsed.text) > 2
    ELSE IF parsed.kind = "bool" THEN parsed.text[1] = "t"
    ELSE IF parsed.kind = "number"
    THEN \/ \E k \in DOMAIN parsed.text : parsed.text[k] \in {"N", "I"}
         \/ \E k \in 1..(NextIn(parsed.text, 1, {"e", "E"}) - 1) :
               parsed.text[k] \in DIGITS \ {"0"}
    ELSE FALSE

\* _evaluate_response, the three JSON branches: format_compliance after
\* `if parsed:`; `key in parsed and bool(parsed[key])` raises TypeError when
\* parsed is not iterable, and when a list or a str holds the key
json_compliance(parsed, key, nested) ==
    IF ~truthy(parsed) THEN Return(FALSE)
    ELSE IF not_iterable(parsed) THEN Raise("TypeError")
    ELSE IF parsed.kind # "dict" /\ py_in(key, parsed) THEN Raise("TypeError")
    ELSE IF nested THEN Return(py_in(K_quality, parsed))
    ELSE Return(TRUE)

\* _evaluate_response, the fenced_json branch: format_compliance is whether
\* the fence pattern matches; parse_json_response(inner) and the refs test
\* follow and may raise
fenced_compliance(m, parsed) ==
    IF truthy(parsed) /\ not_iterable(parsed) THEN Raise("TypeError")
    ELSE IF truthy(parsed) /\ parsed.kind # "dict" /\ py_in(K_refs, parsed)
    THEN Raise("TypeError")
    ELSE Return(m.ok)

\* re.search of ^ prefix gap word under re.MULTILINE | re.IGNORECASE, the gap
\* being \s+ ("plus"), \s* ("star") or nothing ("none")
line_search(t, prefix, gap, word) ==
    \E i \in DOMAIN t :
        /\ AtLineStart(t, i)
        /\ LitAt(t, i, prefix, TRUE)
        /\ LitAt(t,
                 IF gap = "plus" THEN SpacesEnd(t, i + Len(prefix))
                 ELSE IF gap = "star" THEN SkipSpaces(t, i + Len(prefix))
                 ELSE i + Len(prefix),
                 word, TRUE)

\* the numbered_lines test of both checkers: ^1\.\s*REFS: and ^2\.\s*COACHING:
numbered_compliance(t) ==
    /\ line_search(t, <<"1", ".">>, "star", L_REFS)
    /\ line_search(t, <<"2", ".">>, "star", L_COACHING)

\* _evaluate_response after the strip and the think strip: format_compliance
\* of the branch of variant_id (the two xml branches are outside the model)
compliance_of(t, f) ==
    IF f \in {FORMAT_IDS.refs_coaching, FORMAT_IDS.coaching_only} THEN format_ok(t, f)
    ELSE IF f = FORMAT_IDS.json_flat
    THEN json_compliance(parse_json_response(t), K_refs, FALSE)
    ELSE IF f = FORMAT_IDS.json_nested
    THEN json_compliance(parse_json_response(t), K_refs, TRUE)
    ELSE IF f = FORMAT_IDS.single_line_json
    THEN json_compliance(parse_json_response(t), K_r, FALSE)
    ELSE IF f = FORMAT_IDS.fenced_json
    THEN fenced_compliance(fence_search(t),
            parse_json_response(IF fence_search(t).ok
                                THEN Strip(fence_search(t).group) ELSE t))
    ELSE IF f = FORMAT_IDS.markdown_headers
    THEN Return(/\ line_search(t, <<"#", "#">>, "plus", K_refs)
                /\ line_search(t, <<"#", "#">>, "plus", K_coaching))
    ELSE IF f = FORMAT_IDS.numbered_lines THEN Return(numbered_compliance(t))
    ELSE IF f = FORMAT_IDS.yaml_format
    THEN Return(/\ line_search(t, <<>>, "none", <<"r","e","f","s",":">>)
                /\ line_search(t, <<>>, "none", <<"c","o","a","c","h","i","n","g",":">>))
    ELSE IF f = FORMAT_IDS.pipe_delimited
    THEN Return(Cardinality({k \in DOMAIN t : t[k] = "|"}) = 1)
    ELSE Return(FALSE)

\* exp1_formats._evaluate_response(response_text, variant_id,
\* position)["format_compliance"], or the exception that escapes the call
format_compliance(t, f) ==
    IF Strip(t) = <<>> THEN Return(FALSE)
    ELSE compliance_of(strip_think(Strip(t)), f)

\* strip_answer_tags(text): re.search(r"<answer>\s*(.*?)\s*</answer>", text,
\* re.DOTALL), i and j being where the two tags start
answer_between(t, i, j) ==
    IF i = 0 \/ j = 0 THEN t ELSE Strip(SubSeq(t, i + 8, j - 1))
strip_answer_tags(t) ==
    answer_between(t, Find(t, 1, <<"<","a","n","s","w","e","r",">">>),
        IF Find(t, 1, <<"<","a","n","s","w","e","r",">">>) = 0 THEN 0
        ELSE Find(t, Find(t, 1, <<"<","a","n","s","w","e","r",">">>) + 8,
                  <<"<","/","a","n","s","w","e","r",">">>))

\* `"coaching" in obj and "refs" in obj`
flat_keys(obj) == py_in(K_coaching, obj) /\ py_in(K_refs, obj)

\* re.search(r'\{[^{}]*\}', text): an opening brace whose next brace closes
flat_brace_search(t) ==
    LET opens == {i \in DOMAIN t :
                    /\ t[i] = "{"
                    /\ NextIn(t, i + 1, {"{", "}"}) <= Len(t)
                    /\ t[NextIn(t, i + 1, {"{", "}"})] = "}"}
        first == CHOOSE i \in opens : \A k \in opens : i <= k
    IN  IF opens = {} THEN NoMatch
        ELSE [ok |-> TRUE, group |-> SubSeq(t, first, NextIn(t, first + 1, {"{", "}"}))]

\* check_compliance, the json_flat branch after json.loads(text) raised or
\* the key test raised TypeError
flat_fallback(m) ==
    IF ~m.ok THEN FALSE
    ELSE IF json_loads(m.group).kind = "JSONDecodeError" THEN FALSE
    ELSE flat_keys(json_loads(m.group))

\* check_compliance, the json_flat branch, obj being json.loads(text)
flat_compliance(t, obj) ==
    IF obj.kind = "JSONDecodeError" \/ not_iterable(obj)
    THEN flat_fallback(flat_brace_search(t))
    ELSE flat_keys(obj)

\* check_compliance after the two strips
compliance_checked(t, f) ==
    IF t = <<>> THEN FALSE
    ELSE IF f = FORMAT_IDS.refs_coaching
    THEN /\ line_search(t, W_REFS, "star", <<":">>)
         /\ line_search(t, W_COACHING, "star", <<":">>)
    ELSE IF f = FORMAT_IDS.json_flat THEN flat_compliance(t, json_loads(t))
    ELSE IF f = FORMAT_IDS.numbered_lines THEN numbered_compliance(t)
    ELSE FALSE

\* test_thinking_prompts.check_compliance(text, fmt_id)
check_compliance(t, f) == compliance_checked(strip_answer_tags(strip_think(t)), f)

\* the variant ids of FORMAT_VARIANTS but the two xml ones
VariantIds == {FORMAT_IDS[id] : id \in DOMAIN EXAMPLES}

\* the ids of test_thinking_prompts.TEST_FORMATS
TestFormatIds ==
    {FORMAT_IDS.refs_coaching, FORMAT_IDS.json_flat, FORMAT_IDS.numbered_lines}

\* exp1_formats.run_trial: _evaluate_response(response_text,
\* format_variant["id"], position)
EvaluateResponse ==
    /\ pc = "ready"
    /\ \E f \in VariantIds :
          /\ fmt' = f
          /\ TakeDetected(format_compliance(response, f))
    /\ pc' = "compliance_evaluated"
    /\ UNCHANGED <<filterVars, parse_result, fields, refs_arg, valid, invalid,
                   scriptVars, generatorVars>>

\* test_thinking_prompts.run_test: check_compliance(raw, fmt["id"])
CheckCompliance ==
    /\ pc = "ready"
    /\ \E f \in TestFormatIds :
          /\ fmt' = f
          /\ ok' = check_compliance(response, f)
    /\ pc' = "compliance_checked"
    /\ UNCHANGED <<filterVars, raised, parse_result, fields, refs_arg, valid,
                   invalid, scriptVars, generatorVars>>

FormatNext ==
    \/ FormatOk
    \/ ParseJsonResponse
    \/ ParseRefsCoaching
    \/ EvaluateFencedJson
    \/ EvaluateResponse
    \/ CheckCompliance

FormatSpec == FormatInit /\ [][FormatNext]_vars

-----------------------------------------------------------------------------
(* The format detection's properties                                       *)

\* C11: format_ok never raises: for every response text and every format
\* id, known or not, texts whose JSON content is an array included, the
\* call returns a boolean. Fails on the code: with "json_nested" and a
\* response that decodes to a list, `parsed.values()` raises AttributeError.
C11_FormatOkNeverRaises ==
    pc = "detected" => raised = "none"

\* C12: an undecodable position never makes validate_refs or
\* post_validate_refs raise: they return a result. Fails on the code: both
\* call chess.Board(fen) outside any try and the ValueError escapes.
C12_MalformedPositionNeverRaises ==
    (fen = Malformed /\ pc \in {"validated", "cleaned"}) => raised = "none"

\* C13: the example of every entry of the format table is detected as
\* compliant for its own id, and the refs_coaching example parses into
\* non-empty refs and coaching. Fails on the code: the pipe_delimited
\* example holds one "|" and format_ok wants three segments.
C13_ExamplesDetected ==
    /\ \A id \in DOMAIN EXAMPLES :
          (pc = "detected" /\ response = EXAMPLES[id] /\ fmt = FORMAT_IDS[id])
              => (raised = "none" /\ ok)
    /\ (pc = "fields_parsed" /\ response = EXAMPLES.refs_coaching)
          => (fields.ok /\ fields.refs # <<>> /\ fields.coaching # <<>>)

\* where the fences of a text are, and the value held by the block that
\* the fence at i opens: what stands between the optional "json" after it
\* and the next fence, decoded
FencePositions(t) == {i \in DOMAIN t : LitAt(t, i, FENCE, FALSE)}
BlockStart(t, i) ==
    SkipSpaces(t, IF LitAt(t, i + 3, <<"j","s","o","n">>, FALSE)
                  THEN i + 7 ELSE i + 3)
ValueOfBlock(t, i) ==
    LET closing == {j \in FencePositions(t) : j >= BlockStart(t, i)}
    IN  IF closing = {} THEN JSONDecodeError
        ELSE json_loads(Strip(SubSeq(t, BlockStart(t, i),
                 (CHOOSE j \in closing : \A k \in closing : j <= k) - 1)))
FencedObjects(t) ==
    {v \in {ValueOfBlock(t, i) : i \in FencePositions(t)} : v.kind = "dict"}
FirstFencedValue(t) ==
    IF FencePositions(t) = {} THEN JSONDecodeError
    ELSE ValueOfBlock(t, CHOOSE i \in FencePositions(t) :
                            \A k \in FencePositions(t) : i <= k)

\* the response as format_ok looks at it
Evaluated == strip_think(Strip(response))

\* C14 as stated: whenever some fenced block of the response holds a JSON
\* object, fenced_json is detected and parse_json_response returns an object
\* of a fence rather than another brace-delimited object of the text.
C14_FencedObjectPreferred ==
    /\ (pc = "parsed" /\ FencedObjects(response) # {})
          => parse_result \in FencedObjects(response)
    /\ (pc = "detected" /\ fmt = FORMAT_IDS.fenced_json
          /\ FencedObjects(Evaluated) # {}) => ok

\* C14: when the first fenced block of the response, from the first fence
\* to the next one, holds a JSON object, parse_json_response returns that
\* object whatever other brace-delimited objects the text holds, and both
\* fenced_json and json_flat are detected.
C14_FirstFencedObjectPreferred ==
    /\ (pc = "parsed" /\ FirstFencedValue(response).kind = "dict")
          => parse_result = FirstFencedValue(response)
    /\ (pc = "detected" /\ FirstFencedValue(Evaluated).kind = "dict"
          /\ fmt \in {FORMAT_IDS.fenced_json, FORMAT_IDS.json_flat})
          => (raised = "none" /\ ok)

\* a fenced object is returned although another object stands before it
C14_Witness ==
    /\ pc = "parsed"
    /\ FirstFencedValue(response).kind = "dict"
    /\ brace_scan(response, 1, 0, 0).kind = "dict"
    /\ brace_scan(response, 1, 0, 0) # parse_result

\* C15 as stated: fenced_json is detected, by format_ok and by
\* _evaluate_response, only if a fenced block of the text holds a JSON
\* object; a fence around braces that are not JSON is not compliant.
C15_FencedJsonOnlyIfObject ==
    /\ (pc = "detected" /\ fmt = FORMAT_IDS.fenced_json /\ ok)
          => FencedObjects(Evaluated) # {}
    /\ (pc = "evaluated" /\ ok) => FencedObjects(Evaluated) # {}

\* a fence that opens on "{" at once (an optional "json" and white space
\* apart) and a later fence before which, white space apart, stands a "}"
BracesInFences(t) ==
    \E i, j \in FencePositions(t) :
        /\ BlockStart(t, i) < j
        /\ t[BlockStart(t, i)] = "{"
        /\ \E k \in (BlockStart(t, i) + 1)..(j - 1) :
              /\ t[k] = "}"
              /\ \A n \in (k + 1)..(j - 1) : IsSpace(t[n])

\* C15: format_ok detects fenced_json exactly when the text holds a fence
\* followed, after an optional "json" and white space, by "{" and, later,
\* a "}" followed after white space by a fence: what the braces hold is not
\* decoded. _evaluate_response counts fenced_json compliant exactly when the
\* text holds two fences, one after the other.
C15_FencedJsonIsAShape ==
    /\ (pc = "detected" /\ fmt = FORMAT_IDS.fenced_json)
          => (raised = "none" /\ (ok <=> BracesInFences(Evaluated)))
    /\ pc = "evaluated"
          => (ok <=> \E i, j \in FencePositions(Evaluated) : j >= i + 3)

\* fenced_json detected although no fenced block holds a JSON object
C15_Witness ==
    /\ pc = "detected"
    /\ fmt = FORMAT_IDS.fenced_json
    /\ ok
    /\ BracesInFences(Evaluated)
    /\ FencedObjects(Evaluated) = {}

\* the text holds a JSON object: some stretch from a "{" to a "}" decodes
\* to one
HoldsObject(t) ==
    \E i, j \in DOMAIN t :
        /\ t[i] = "{"
        /\ t[j] = "}"
        /\ i < j
        /\ json_loads(SubSeq(t, i, j)).kind = "dict"

\* C16: a text that holds a JSON object, whatever surrounds it, a stray "}"
\* before it included, is parsed by parse_json_response and detected as
\* json_flat. Fails on the code: a "}" before the object takes the depth
\* below zero, and the object's own "}" never brings it back to zero.
C16_ObjectFoundInAnyText ==
    /\ (pc = "parsed" /\ HoldsObject(response)) => parse_result # PyNone
    /\ (pc = "detected" /\ fmt = FORMAT_IDS.json_flat /\ HoldsObject(Evaluated))
          => ok

\* the repair of capitalized booleans: True and False in lower case
LowerBooleans(t) ==
    [k \in DOMAIN t |->
        IF LitAt(t, k, <<"T","r","u","e">>, FALSE) THEN "t"
        ELSE IF LitAt(t, k, <<"F","a","l","s","e">>, FALSE) THEN "f"
        ELSE t[k]]

\* C17: a candidate that is a JSON object but for capitalized booleans is
\* accepted by the parser of the format detection. Fails on the code:
\* parse_json_response has no repair pass and returns None.
C17_NearMissAccepted ==
    /\ (pc = "parsed" /\ json_loads(LowerBooleans(Strip(response))).kind = "dict")
          => parse_result.kind = "dict"
    /\ (pc = "detected" /\ fmt = FORMAT_IDS.json_flat
          /\ json_loads(LowerBooleans(Evaluated)).kind = "dict") => ok

\* what follows the first </think> of the stripped response, stripped; the
\* stripped response when it holds none
Remainder ==
    LET s == Strip(response)
        at == {i \in DOMAIN s : LitAt(s, i, L_THINK, FALSE)}
    IN  IF at = {} THEN s
        ELSE Strip(SubSeq(s, (CHOOSE i \in at : \A k \in at : i <= k) + Len(L_THINK),
                          Len(s)))

\* C18: for every response and format id, format_ok returns what the
\* detection returns on the text that follows the first </think>: nothing
\* at or before it counts, and an empty remainder is compliant with no
\* format.
C18_OnlyRemainderEvaluated ==
    pc = "detected" =>
        /\ [raised |-> raised, value |-> ok] = format_stripped(Remainder, fmt)
        /\ Remainder = <<>> => (raised = "none" /\ ~ok)

\* a reasoning block whose presence would change the result
C18_Witness ==
    /\ pc = "detected"
    /\ Remainder # Strip(response)
    /\ ~LitAt(Strip(response), 1, L_THINK, FALSE)
    /\ Remainder # <<>>
    /\ ok
    /\ ~format_stripped(Strip(response), fmt).value

\* a line of t starts with word and a colon, in any case
StrictLabelLine(t, word) ==
    \E i \in DOMAIN t : AtLineStart(t, i) /\ LitAt(t, i, word \o <<":">>, TRUE)

\* a line of t starts, after blanks and tabs, with word in any case, then
\* white space, then a colon or an equals sign
LabelLine(t, word) ==
    \E p \in DOMAIN t :
        /\ LitAt(t, p, word, TRUE)
        /\ \E i \in 1..p :
              /\ AtLineStart(t, i)
              /\ \A k \in i..(p - 1) : t[k] \in {" ", "\t"}
        /\ \E q \in (p + Len(word))..Len(t) :
              /\ t[q] \in {":", "="}
              /\ \A k \in (p + Len(word))..(q - 1) : IsSpace(t[k])

\* C19 as stated: refs_coaching is ok exactly when one line starts with
\* REFS: and one line starts with COACHING:, in any case.
C19_OkIffBothColonLabels ==
    /\ pc = "fields_parsed"
          => (fields.ok <=> (StrictLabelLine(response, W_REFS)
                               /\ StrictLabelLine(response, W_COACHING)))
    /\ (pc = "detected" /\ fmt = FORMAT_IDS.refs_coaching)
          => (ok <=> (StrictLabelLine(Evaluated, W_REFS)
                        /\ StrictLabelLine(Evaluated, W_COACHING)))

\* C19: refs_coaching is ok exactly when one line holds the label REFS and
\* one line the label COACHING, a label being the word in any case, after
\* optional blanks and tabs, followed by optional white space and a colon
\* or an equals sign; a text with one of the two labels only is not ok.
C19_OkIffBothLabels ==
    /\ pc = "fields_parsed"
          => (fields.ok <=> (LabelLine(response, W_REFS)
                               /\ LabelLine(response, W_COACHING)))
    /\ (pc = "detected" /\ fmt = FORMAT_IDS.refs_coaching)
          => /\ raised = "none"
             /\ ok <=> (LabelLine(Evaluated, W_REFS)
                          /\ LabelLine(Evaluated, W_COACHING))

\* ok with a label that is not written WORD: at the start of its line
C19_Witness ==
    /\ pc = "fields_parsed"
    /\ fields.ok
    /\ StrictLabelLine(response, W_REFS)
    /\ ~StrictLabelLine(response, W_COACHING)

\* C20: coaching_only is ok exactly when the stripped text is not empty and
\* holds no REFS or COACHING label line; so a text that is ok for
\* coaching_only is not ok for refs_coaching, and the other way round.
C20_CoachingOnlyIffNoLabel ==
    /\ (pc = "detected" /\ fmt = FORMAT_IDS.coaching_only)
          => /\ raised = "none"
             /\ ok <=> /\ Evaluated # <<>>
                       /\ ~LabelLine(Evaluated, W_REFS)
                       /\ ~LabelLine(Evaluated, W_COACHING)
    /\ (pc = "detected" /\ fmt = FORMAT_IDS.coaching_only /\ ok)
          => ~format_ok(response, FORMAT_IDS.refs_coaching).value
    /\ (pc = "detected" /\ fmt = FORMAT_IDS.refs_coaching /\ ok)
          => ~format_ok(response, FORMAT_IDS.coaching_only).value

\* a text that is not coaching_only for its COACHING label alone
C20_Witness ==
    /\ pc = "detected"
    /\ fmt = FORMAT_IDS.coaching_only
    /\ ~ok
    /\ Evaluated # <<>>
    /\ LabelLine(Evaluated, W_COACHING)
    /\ ~LabelLine(Evaluated, W_REFS)

-----------------------------------------------------------------------------
(* extract_piece_refs: duplicates and order                                *)

\* the positions of the response where a natural-language match for the
\* reference key starts
NLStarts(key) ==
    {i \in 1..Len(response) :
        /\ PIECE_REF_PATTERN(response, i).ok
        /\ Lower(PIECE_REF_PATTERN(response, i).piece) = key[1]
        /\ Lower(PIECE_REF_PATTERN(response, i).square) = key[2]}

\* the positions of the response where a SAN-style match for the key starts
SANStarts(key) ==
    {i \in 1..Len(response) :
        /\ SAN_PIECE_PATTERN(response, i).ok
        /\ san_letter_to_name[SAN_PIECE_PATTERN(response, i).symbol] = key[1]
        /\ SAN_PIECE_PATTERN(response, i).square = key[2]}

Least(S) == CHOOSE x \in S : \A y \in S : x <= y

\* where the first mention of a reference starts, in either grammar
FirstMention(key) == Least(NLStarts(key) \cup SANStarts(key))

\* for the k-th returned reference: where its mentions in words start, where
\* its SAN-style mentions start, and where its first mention starts
WordMentions == [k \in DOMAIN Refs |-> NLStarts(Refs[k])]
SanMentions  == [k \in DOMAIN Refs |-> SANStarts(Refs[k])]
FirstMentions == [k \in DOMAIN Refs |-> FirstMention(Refs[k])]

\* C23: the list extract_piece_refs returns holds no (kind, square) pair
\* twice, whether the mentions are matched by one grammar or by both.
C23_NoDuplicateRefs ==
    Scored => \A a, b \in DOMAIN Refs : a # b => Refs[a] # Refs[b]

\* a reference mentioned once in words and once in SAN style is returned once
C23_Witness ==
    /\ Scored
    /\ \E a \in DOMAIN Refs :
          NLStarts(Refs[a]) # {} /\ SANStarts(Refs[a]) # {}

\* C24: a reference whose first mention starts earlier in the text stands
\* earlier in the list, whichever grammar matched each mention.
C24_FirstSeenOrder ==
    Scored =>
        LET first == FirstMentions
        IN \A a, b \in DOMAIN first : first[a] < first[b] => a < b

\* C24 (as the code has it): the references matched in words come first, in
\* the order of their first mention in words; the references matched only
\* in SAN style follow, in the order of their first mention.
C24_WordsThenSanOrder ==
    Scored =>
        LET nl  == WordMentions
            san == SanMentions
        IN \A a, b \in DOMAIN nl :
            a < b <=>
               \/ nl[a] # {} /\ nl[b] # {} /\ Least(nl[a]) < Least(nl[b])
               \/ nl[a] # {} /\ nl[b] = {}
               \/ nl[a] = {} /\ nl[b] = {} /\ Least(san[a]) < Least(san[b])

\* a SAN-style reference mentioned before a reference in words
C24_Witness ==
    /\ Scored
    /\ \E a, b \in DOMAIN Refs :
          /\ NLStarts(Refs[a]) # {}
          /\ NLStarts(Refs[b]) = {}
          /\ FirstMention(Refs[b]) < FirstMention(Refs[a])

-----------------------------------------------------------------------------
(* validate_pieces against hallucination_score                             *)

\* C27: on a decodable position validate_pieces(refs, fen) is True exactly
\* when hallucination_score(refs, fen) is 0, SAN-style refs included.
C27_VerdictsAgree ==
    (pc = "pieces_validated" /\ fen.decodable)
        => (ok <=> hallucination_score(response, fen).value = 0)

-----------------------------------------------------------------------------
(* bench_m4.parse_refs, bench_final_accuracy.validate_squares and          *)
(* bench_double.check_accuracy / pick_better                               *)

\* \w
IsWord(c) == IsAlpha(c) \/ c \in DIGITS \/ c = "_"

\* \b([a-h][1-8])\b matched at position i
SQUARE_RE(t, i) ==
    /\ SquareAt(t, i, FALSE)
    /\ (i = 1 \/ ~IsWord(t[i - 1]))
    /\ (i + 2 > Len(t) \/ ~IsWord(t[i + 2]))

\* re.findall(r'\b([a-h][1-8])\b', t) from position i on
RECURSIVE square_findall(_, _)
square_findall(t, i) ==
    IF i + 1 > Len(t) THEN <<>>
    ELSE IF SQUARE_RE(t, i)
    THEN <<SubSeq(t, i, i + 1)>> \o square_findall(t, i + 2)
    ELSE square_findall(t, i + 1)

PIECE_MAP ==
    (W_king :> "k") @@ (W_queen :> "q") @@ (W_rook :> "r") @@
    (W_bishop :> "b") @@ (W_knight :> "n") @@ (W_pawn :> "p")

\* `PIECE_MAP.get(tokens[0]) if tokens else None`, tokens being
\* trimmed.split(): the first token ends before the first white space
first_kind(trimmed) ==
    LET token == SubSeq(trimmed, 1, NextIn(trimmed, 1, {" ", "\n", "\t", "\r"}) - 1)
    IN IF token \in DOMAIN PIECE_MAP THEN PIECE_MAP[token] ELSE "None"

\* parse_refs, were a part without a leading piece word skipped
part_refs_with_kind_only(trimmed, found) ==
    IF found = <<>> \/ first_kind(trimmed) = "None" THEN <<>>
    ELSE << <<Head(found), first_kind(trimmed)>> >>

\* the body of the `for part in s.split(",")` loop: what it appends, found
\* being the squares SQUARE_RE finds in the trimmed part
part_refs(trimmed, found) ==
    IF found = <<>> THEN <<>>
    ELSE << <<Head(found), first_kind(trimmed)>> >>

RECURSIVE parts_refs(_)
parts_refs(parts) ==
    IF parts = <<>> THEN <<>>
    ELSE part_refs(Strip(Lower(Head(parts))),
                   square_findall(Strip(Lower(Head(parts))), 1))
            \o parts_refs(Tail(parts))

\* bench_m4.parse_refs(s): the list of (square, piece kind or None)
parse_refs(s) ==
    IF s = <<>> \/ Strip(Lower(s)) = <<"n","o","n","e">> THEN <<>>
    ELSE parts_refs(split_comma(s, 1, <<>>))

\* str.split("\n"): the lines, cur being the open one
RECURSIVE split_newline(_, _, _)
split_newline(t, i, cur) ==
    IF i > Len(t) THEN <<cur>>
    ELSE IF t[i] = "\n" THEN <<cur>> \o split_newline(t, i + 1, <<>>)
    ELSE split_newline(t, i + 1, Append(cur, t[i]))

\* bench_m4.parse_refs_coaching: refs after the `for line in lines` loop;
\* every line that starts with REFS: replaces the refs of the lines before
RECURSIVE lines_refs(_, _)
lines_refs(lines, refs) ==
    IF lines = <<>> THEN refs
    ELSE lines_refs(Tail(lines),
            IF LitAt(Strip(Head(lines)), 1, L_REFS, TRUE)
            THEN parse_refs(Strip(SubSeq(Strip(Head(lines)), Len(L_REFS) + 1,
                                         Len(Strip(Head(lines))))))
            ELSE refs)

\* bench_m4.parse_refs_coaching(response): the refs list it returns
bench_m4_parse_refs_coaching(resp) ==
    lines_refs(split_newline(Strip(resp), 1, <<>>), <<>>)

\* bench_final_accuracy.validate_squares: the `for sq_name in squares` loop
RECURSIVE validate_squares_loop(_, _, _, _)
validate_squares_loop(board, sqs, v, iv) ==
    IF sqs = <<>> THEN [raised |-> "none", valid |-> v, invalid |-> iv]
    ELSE IF piece_at(board, parse_square(Head(sqs))) # NoPiece
    THEN validate_squares_loop(board, Tail(sqs), Append(v, Head(sqs)), iv)
    ELSE validate_squares_loop(board, Tail(sqs), v, Append(iv, Head(sqs)))

\* bench_final_accuracy.validate_squares(squares, fen): chess.Board(fen)
\* stands before the loop and no try surrounds it
validate_squares(sqs, f) ==
    IF ~chess_Board(f).ok
    THEN [raised |-> "ValueError", valid |-> <<>>, invalid |-> <<>>]
    ELSE validate_squares_loop(chess_Board(f).board, sqs, <<>>, <<>>)

\* extract_refs_and_coaching(text): ref_squares
ref_squares_of(text) == square_findall(refs_raw_of(text), 1)

\* what check_accuracy returns, or the exception that escapes it
Accuracy(v, t) == [raised |-> "none", valid |-> v, total |-> t]
AccuracyRaise(e) == [raised |-> e, valid |-> -1, total |-> -1]

\* re.findall(r'(knight|bishop|rook|queen|king|pawn)\s+(?:on\s+)?([a-h][1-8])',
\* t, re.IGNORECASE) from position i on; m is the attempt at i. The pattern
\* is _PIECE_WORD + _ON + _SQ with the white space before the optional "on"
\* taken first, which matches the same texts.
RECURSIVE piece_sq_findall(_, _)
piece_sq_findall_from(t, i, m) ==
    IF m.ok THEN <<m>> \o piece_sq_findall(t, m.end) ELSE piece_sq_findall(t, i + 1)
piece_sq_findall(t, i) ==
    IF i > Len(t) THEN <<>> ELSE piece_sq_findall_from(t, i, ref_core(t, i))

\* check_accuracy: the `for sq_name in square_refs` loop
RECURSIVE count_squares(_, _, _, _)
count_squares(board, sqs, v, t) ==
    IF sqs = <<>> THEN Accuracy(v, t)
    ELSE count_squares(board, Tail(sqs),
            IF piece_at(board, parse_square(Head(sqs))) # NoPiece THEN v + 1 ELSE v,
            t + 1)

\* check_accuracy: the `for piece_name_str, sq_name in piece_sq_refs` loop;
\* chess.parse_square raises ValueError for a square in upper case
RECURSIVE count_piece_refs(_, _, _, _)
count_piece_refs(board, ms, v, t) ==
    IF ms = <<>> THEN Accuracy(v, t)
    ELSE IF parse_square(Head(ms).square) = -1 THEN AccuracyRaise("ValueError")
    ELSE count_piece_refs(board, Tail(ms),
            IF /\ piece_at(board, parse_square(Head(ms).square)) # NoPiece
               /\ piece_at(board, parse_square(Head(ms).square)).piece_type
                     = PIECE_NAMES_get(Lower(Head(ms).piece))
            THEN v + 1 ELSE v,
            t + 1)

\* check_accuracy after the first loop, counted being its result
accuracy_of_refs(board, refs_text, counted) ==
    count_piece_refs(board, piece_sq_findall(refs_text, 1),
                     counted.valid, counted.total)

\* check_accuracy after re.search, which follows chess.Board(fen)
accuracy_of_match(b, refs_match) ==
    IF ~b.ok THEN AccuracyRaise("ValueError")
    ELSE IF ~refs_match.ok THEN Accuracy(0, 0)
    ELSE accuracy_of_refs(b.board, refs_match.group,
            count_squares(b.board, square_findall(refs_match.group, 1), 0, 0))

\* bench_double.check_accuracy(text, fen)
check_accuracy(text, f) ==
    accuracy_of_match(chess_Board(f), refs_search(strip_think(text)))

\* `v / t if t > 0 else 0` as a fraction: the quotients of two such small
\* integers are equal as floats exactly when the fractions are equal
rate(a) == IF a.total > 0 THEN <<a.valid, a.total>> ELSE <<0, 1>>

\* what pick_better returns: which response (1 or 2), its valid and total
Picked(n, a) == [raised |-> "none", resp |-> n, valid |-> a.valid, total |-> a.total]

\* pick_better after the two check_accuracy calls
better_of(a1, a2) ==
    IF a1.raised # "none" THEN [raised |-> a1.raised, resp |-> 0, valid |-> -1, total |-> -1]
    ELSE IF a2.raised # "none" THEN [raised |-> a2.raised, resp |-> 0, valid |-> -1, total |-> -1]
    ELSE IF rate(a1)[1] * rate(a2)[2] = rate(a2)[1] * rate(a1)[2]
    THEN (IF a1.total >= a2.total THEN Picked(1, a1) ELSE Picked(2, a2))
    ELSE IF rate(a1)[1] * rate(a2)[2] >= rate(a2)[1] * rate(a1)[2] THEN Picked(1, a1)
    ELSE Picked(2, a2)

\* bench_double.pick_better(resp1, resp2, fen)
pick_better(resp1, resp2_, f) ==
    better_of(check_accuracy(resp1, f), check_accuracy(resp2_, f))

-----------------------------------------------------------------------------
(* Inputs of the accuracy checks                                           *)

MaxFragments == 2

\* the comma-separated fragments a REFS line is made of
Fragments ==
    { e4,
      e5,
      W_knight \o SP \o e4,
      <<"t","h","e"," ","q","u","e","e","n"," ","o","n"," ">> \o e5,
      <<"N">> \o e4 }

RECURSIVE RefsLinesUpTo(_)
RefsLinesUpTo(n) ==
    IF n = 0 THEN {<<>>}
    ELSE LET shorter == RefsLinesUpTo(n - 1)
         IN shorter \cup Fragments
              \cup {r \o COMMA \o fr : r \in shorter \ {<<>>}, fr \in Fragments}

\* the model's answer with the refs r, as the benchmark loops receive it
Answer(r) == Strip(L_REFS \o SP \o r \o NL \o L_COACHING \o SP \o <<"o","k">>)

AccuracyResponses == {Answer(r) : r \in RefsLinesUpTo(MaxFragments)}

\* the second answer of the double call: no fragment or one
SecondResponses == {Answer(r) : r \in {<<>>} \cup Fragments}

-----------------------------------------------------------------------------
(* The accuracy session: one answer checked against one position           *)

AccuracyInit ==
    /\ fen \in Positions
    /\ response \in AccuracyResponses
    /\ pc = "ready"
    /\ score = -1
    /\ raised = "none"
    /\ cleaned = NoText
    /\ rejected = -1
    /\ cleaned2 = NoText
    /\ rejected2 = -1
    /\ kept = <<>>
    /\ all_removed = FALSE
    /\ NothingDetected

\* the caller takes the result of validate_refs, called under `if refs:`
TakeCounted(refs, r) ==
    /\ refs_arg' = refs
    /\ IF refs # <<>>
       THEN raised' = r.raised /\ valid' = r.valid /\ invalid' = r.invalid
       ELSE UNCHANGED <<raised, valid, invalid>>

\* bench_m4.run_trial: parse_refs_coaching(clean), then validate_refs under
\* `if refs:`
ParseRefs ==
    /\ pc = "ready"
    /\ TakeCounted(bench_m4_parse_refs_coaching(response),
                   validate_refs(bench_m4_parse_refs_coaching(response), fen))
    /\ pc' = "refs_parsed"
    /\ UNCHANGED <<filterVars, fmt, ok, parse_result, fields, scriptVars, generatorVars>>

\* the caller takes the result of validate_squares
TakeSquares(r) ==
    /\ raised' = r.raised
    /\ squares' = [valid |-> r.valid, invalid |-> r.invalid]

\* bench_final_accuracy: extract_refs_and_coaching(resp), then
\* validate_squares(ref_squares, fen)
ValidateSquares ==
    /\ pc = "ready"
    /\ TakeSquares(validate_squares(ref_squares_of(response), fen))
    /\ pc' = "squares_validated"
    /\ UNCHANGED <<filterVars, detectVars, resp2, picked, generatorVars>>

\* the caller takes the result of pick_better
TakePicked(r) ==
    /\ raised' = r.raised
    /\ picked' = [resp |-> r.resp, valid |-> r.valid, total |-> r.total]

\* bench_double: pick_better(resp_a, resp_b, fen)
PickBetter ==
    /\ pc = "ready"
    /\ \E r \in SecondResponses :
          /\ resp2' = r
          /\ TakePicked(pick_better(response, r, fen))
    /\ pc' = "picked"
    /\ UNCHANGED <<filterVars, detectVars, squares, generatorVars>>

AccuracyNext ==
    \/ ParseRefs
    \/ ValidateSquares
    \/ PickBetter
    \/ HallucinationScore

AccuracySpec == AccuracyInit /\ [][AccuracyNext]_vars

-----------------------------------------------------------------------------
(* The accuracy checks' properties                                         *)

\* a fragment that is a square and nothing else
BareSquare(fr) == Len(fr) = 2 /\ SquareAt(fr, 1, FALSE)

\* the square is occupied in the position
SquareOccupied(sq) == parse_square(sq) \in DOMAIN fen.pieces

\* the kind letter of the piece on an occupied square
KIND_LETTER ==
    [PAWN |-> "p", KNIGHT |-> "n", BISHOP |-> "b", ROOK |-> "r",
     QUEEN |-> "q", KING |-> "k"]
KindOn(sq) == KIND_LETTER[fen.pieces[parse_square(sq)].piece_type]

\* the refs of the answer reached validate_refs and the position decoded
RefsValidated == pc = "refs_parsed" /\ fen.decodable /\ refs_arg # <<>>

\* C22: a bare square of the refs is captured as the claim (kind = None,
\* square) by the REFS-line parser and by the evaluator's extractor alike,
\* and such a claim is valid exactly when a piece stands on the square.
C22_BareSquareCaptured ==
    /\ (pc = "refs_parsed" /\ fen.decodable)
          => \A f \in DOMAIN RefsFragments :
                BareSquare(RefsFragments[f])
                   => /\ \E k \in DOMAIN refs_arg :
                            refs_arg[k] = <<RefsFragments[f], "None">>
                      /\ validate_refs(<< <<RefsFragments[f], "None">> >>, fen)
                            = IF SquareOccupied(RefsFragments[f])
                              THEN Counted(1, 0) ELSE Counted(0, 1)
    /\ Scored
          => \A f \in DOMAIN RefsFragments :
                BareSquare(RefsFragments[f])
                   => \E k \in DOMAIN Refs :
                         /\ Refs[k][2] = RefsFragments[f]
                         /\ Refs[k][1] \notin DOMAIN PIECE_NAMES

\* C22 (as the code has it): bench_m4.parse_refs captures a bare square as
\* (square, None), and validate_refs counts such a claim valid exactly when
\* a piece stands on the square; evaluator.extract_piece_refs returns
\* piece-and-square claims only, each with a piece name, and none for a
\* bare square.
C22_BareSquareInParseRefsOnly ==
    /\ (pc = "refs_parsed" /\ fen.decodable)
          => \A f \in DOMAIN RefsFragments :
                BareSquare(RefsFragments[f])
                   => /\ \E k \in DOMAIN refs_arg :
                            refs_arg[k] = <<RefsFragments[f], "None">>
                      /\ validate_refs(<< <<RefsFragments[f], "None">> >>, fen)
                            = IF SquareOccupied(RefsFragments[f])
                              THEN Counted(1, 0) ELSE Counted(0, 1)
    /\ Scored
          => /\ \A k \in DOMAIN Refs : Refs[k][1] \in DOMAIN PIECE_NAMES
             /\ (\A f \in DOMAIN RefsFragments : BareSquare(RefsFragments[f]))
                   => Refs = <<>>

\* an answer with a bare square on an occupied square and a claim with a kind
C22_Witness ==
    /\ RefsValidated
    /\ \E f \in DOMAIN RefsFragments :
          /\ BareSquare(RefsFragments[f])
          /\ SquareOccupied(RefsFragments[f])
    /\ \E k \in DOMAIN refs_arg : refs_arg[k][2] # "None"
    /\ valid >= 1

\* a claim (square, kind) holds of the position
RefHolds(ref) ==
    /\ SquareOccupied(ref[1])
    /\ ref[2] # "None" => KindOn(ref[1]) = ref[2]

\* C25: validate_refs returns counts that add up to the number of refs; a ref
\* without a kind is valid iff its square is occupied, a ref with a kind iff
\* its square holds a piece of that kind; validate_squares sorts the squares
\* into the occupied and the empty ones.
C25_ValidAndInvalidPartition ==
    /\ RefsValidated
          => /\ valid + invalid = Len(refs_arg)
             /\ valid = Cardinality({k \in DOMAIN refs_arg : RefHolds(refs_arg[k])})
    /\ (pc = "squares_validated" /\ fen.decodable)
          => /\ Len(squares.valid) + Len(squares.invalid)
                   = Len(ref_squares_of(response))
             /\ squares.valid = SelectSeq(ref_squares_of(response), SquareOccupied)

\* a square-only ref on an occupied square beside a ref whose kind is not
\* the kind of the piece on its square
C25_Witness ==
    /\ RefsValidated
    /\ valid = 1 /\ invalid = 1
    /\ \E k \in DOMAIN refs_arg : refs_arg[k][2] = "None" /\ RefHolds(refs_arg[k])
    /\ \E k \in DOMAIN refs_arg :
          /\ refs_arg[k][2] # "None"
          /\ SquareOccupied(refs_arg[k][1])
          /\ ~RefHolds(refs_arg[k])

\* the accuracy rate of a check_accuracy result r1 is higher than that of r2
\* (the rate is valid / total, 0 when total is 0)
HigherRate(r1, r2) ==
    /\ r1.total > 0
    /\ r1.valid > 0
    /\ r2.total > 0 => r1.valid * r2.total > r2.valid * r1.total

\* C26: pick_better returns the response with the higher accuracy rate, and
\* resp1 whenever the two rates are equal.
C26_TieGoesToFirst ==
    (pc = "picked" /\ raised = "none")
        => /\ HigherRate(check_accuracy(resp2, fen), check_accuracy(response, fen))
                 => picked.resp = 2
           /\ ~HigherRate(check_accuracy(resp2, fen), check_accuracy(response, fen))
                 => picked.resp = 1

-----------------------------------------------------------------------------
(* The compliance checkers against format_ok                               *)

\* C21: the compliance result tallied by the experiments equals format_ok for
\* the same text and format id, for _evaluate_response's format_compliance
\* and for check_compliance.
C21_ComplianceIsFormatOk ==
    pc \in {"compliance_evaluated", "compliance_checked"}
        => /\ raised = format_ok(response, fmt).raised
           /\ raised = "none" => ok = format_ok(response, fmt).value

-----------------------------------------------------------------------------
(* generate_all_openings.main: the resume loop                             *)

EXISTING_IDS == {"italian", "london"}

\* load_progress(): the ids of the progress file, the empty set without one
load_progress(file) == IF file.exists THEN file.completed ELSE {}

\* save_progress(completed): the file after the call
save_progress(ids) == [exists |-> TRUE, completed |-> ids]

\* output_path.exists()
output_exists(files, oid) == files[oid] # "absent"

\* "Skip existing JSON files (italian, london)"
skip_existing(a, files, oid) ==
    oid \in EXISTING_IDS /\ output_exists(files, oid) /\ ~a.force

\* the completed test, were it left out
skip_no_completed(a, done, oid) == FALSE

\* "Skip if already completed in this run"
skip_completed(a, done, oid) == oid \in done /\ ~a.force

\* [o for o in OPENINGS if o["id"] in only_ids]
only(ids) == SelectSeq(OPENINGS, LAMBDA oid : oid \in ids)

\* the scoring, filtering and detection variables, which the generator
\* leaves alone
textVars == <<fen, response, pc, score, raised, cleaned, rejected, cleaned2,
              rejected2, kept, all_removed, detectVars, scriptVars>>

\* before the first run: no progress file, no output file
TextIdle ==
    /\ fen = Malformed
    /\ response = NoText
    /\ pc = "ready"
    /\ score = -1
    /\ raised = "none"
    /\ cleaned = NoText
    /\ rejected = -1
    /\ cleaned2 = NoText
    /\ rejected2 = -1
    /\ kept = <<>>
    /\ all_removed = FALSE
    /\ ScriptsIdle
    /\ DetectIdle

MainInit ==
    /\ TextIdle
    /\ NothingGenerated

\* the oid of the loop's current opening
oid_at == openings_to_generate[opening_at]

InLoop == opening_at \in DOMAIN openings_to_generate

\* main up to the loop: the arguments, the openings chosen with --only (all
\* of them without it), the progress loaded, the counts at 0
StartRun ==
    /\ opening_at = 0
    /\ \E force \in BOOLEAN, no_resume \in BOOLEAN, ids \in SUBSET OpeningIdSet \ {{}} :
          /\ args' = [force |-> force, no_resume |-> no_resume]
          /\ openings_to_generate' = only(ids)
          /\ completed' = IF no_resume THEN {} ELSE load_progress(progress_file)
          /\ loaded' = IF no_resume THEN {} ELSE load_progress(progress_file)
    /\ opening_at' = 1
    /\ generated' = 0
    /\ skipped' = 0
    /\ failed' = 0
    /\ UNCHANGED <<textVars, treeVars, progress_file, output>>

\* one pass of the loop that ends in `continue` before the try
SkipOpening ==
    /\ InLoop
    /\ \/ skip_existing(args, output, oid_at)
       \/ skip_completed(args, completed, oid_at)
    /\ skipped' = skipped + 1
    /\ opening_at' = opening_at + 1
    /\ UNCHANGED <<textVars, treeVars, args, openings_to_generate, completed,
                   loaded, progress_file, output, generated, failed>>

\* one pass of the loop through the try: the file is written, the id added
\* and the progress saved
GenerateOpening ==
    /\ InLoop
    /\ ~skip_existing(args, output, oid_at)
    /\ ~skip_completed(args, completed, oid_at)
    /\ output' = [output EXCEPT ![oid_at] = "written"]
    /\ generated' = generated + 1
    /\ completed' = completed \cup {oid_at}
    /\ progress_file' = save_progress(completed \cup {oid_at})
    /\ opening_at' = opening_at + 1
    /\ UNCHANGED <<textVars, treeVars, args, openings_to_generate, loaded,
                   skipped, failed>>

\* one pass of the loop into the except: generate_opening_json raised, or
\* open(output_path, "w") did, and the file is as it was; or json.dump
\* raised after open() had truncated the file
GenerationFails ==
    /\ InLoop
    /\ ~skip_existing(args, output, oid_at)
    /\ ~skip_completed(args, completed, oid_at)
    /\ \E left \in {output[oid_at], "partial"} :
          output' = [output EXCEPT ![oid_at] = left]
    /\ failed' = failed + 1
    /\ opening_at' = opening_at + 1
    /\ UNCHANGED <<textVars, treeVars, args, openings_to_generate, completed,
                   loaded, progress_file, generated, skipped>>

\* the loop is over: the summary is printed and main returns
FinishRun ==
    /\ opening_at = Len(openings_to_generate) + 1
    /\ opening_at' = 0
    /\ UNCHANGED <<textVars, treeVars, args, openings_to_generate, completed,
                   loaded, progress_file, output, generated, skipped, failed>>

\* the run is stopped in the loop (KeyboardInterrupt is no Exception, so the
\* except clause lets it through): before the opening is generated, or while
\* or after its file is written and before the progress is saved
Interrupt ==
    /\ InLoop
    /\ \E left \in {output[oid_at]}
            \cup (IF \/ skip_existing(args, output, oid_at)
                     \/ skip_completed(args, completed, oid_at)
                  THEN {} ELSE {"partial", "written"}) :
          output' = [output EXCEPT ![oid_at] = left]
    /\ opening_at' = 0
    /\ UNCHANGED <<textVars, treeVars, args, openings_to_generate, completed,
                   loaded, progress_file, generated, skipped, failed>>

MainNext ==
    \/ StartRun
    \/ SkipOpening
    \/ GenerateOpening
    \/ GenerationFails
    \/ FinishRun
    \/ Interrupt

MainSpec == MainInit /\ [][MainNext]_vars

\* the ids the progress file holds
Saved == load_progress(progress_file)

\* this step recorded in the progress file only ids whose JSON file is
\* written whole
RecordedAfterWritten ==
    \A oid \in load_progress(progress_file') \ Saved : output'[oid] = "written"

\* this step counted a failure and left the completed set and the progress
\* file as they were, and the loop is at the next opening
FailureKeepsProgress ==
    failed' = failed + 1
        => /\ completed' = completed
           /\ progress_file' = progress_file
           /\ opening_at' = opening_at + 1
           /\ openings_to_generate' = openings_to_generate

\* this step called generate_opening_json for an id of the loaded progress
\* only under --force
LoadedNotRegenerated ==
    (InLoop /\ oid_at \in loaded /\ (generated' = generated + 1 \/ failed' = failed + 1))
        => args.force

-----------------------------------------------------------------------------
(* generate_all_openings.validate_moves and build_tree                     *)

\* chess.Board(): the starting position, White to move. The board of this
\* model knows the moves of pawns and knights (no en passant, no promotion);
\* the lines of the model hold no other move and give no check.
BACK_RANK == <<"ROOK", "KNIGHT", "BISHOP", "QUEEN", "KING", "BISHOP", "KNIGHT", "ROOK">>

start_piece(sq) ==
    IF sq < 8 THEN [piece_type |-> BACK_RANK[sq + 1], color |-> WHITE]
    ELSE IF sq < 16 THEN [piece_type |-> "PAWN", color |-> WHITE]
    ELSE IF sq < 56 THEN [piece_type |-> "PAWN", color |-> BLACK]
    ELSE [piece_type |-> BACK_RANK[sq - 55], color |-> BLACK]

StartBoard ==
    [pieces |-> [sq \in (0..15) \cup (48..63) |-> start_piece(sq)], turn |-> WHITE]

\* chess.Move.from_uci(uci) of a four-character string: the two squares, or
\* ok = FALSE for the ValueError (a square that is none, or twice the same)
from_uci(uci) ==
    IF /\ Len(uci) = 4
       /\ parse_square(SubSeq(uci, 1, 2)) # -1
       /\ parse_square(SubSeq(uci, 3, 4)) # -1
       /\ SubSeq(uci, 1, 2) # SubSeq(uci, 3, 4)
    THEN [ok |-> TRUE, from_square |-> parse_square(SubSeq(uci, 1, 2)),
          to_square |-> parse_square(SubSeq(uci, 3, 4))]
    ELSE [ok |-> FALSE, from_square |-> -1, to_square |-> -1]

board_piece_at(board, sq) ==
    IF sq \in DOMAIN board.pieces THEN board.pieces[sq] ELSE NoPiece

Distance(a, b) == IF a >= b THEN a - b ELSE b - a

\* the step of a pawn of the side to move, and the rank its double step
\* starts from
forward(board) == IF board.turn = WHITE THEN 1 ELSE -1
pawn_rank(board) == IF board.turn = WHITE THEN 1 ELSE 6

pawn_move(board, m, files, ranks) ==
    \/ /\ files = 0
       /\ ranks = forward(board)
       /\ board_piece_at(board, m.to_square) = NoPiece
    \/ /\ files = 0
       /\ ranks = 2 * forward(board)
       /\ m.from_square \div 8 = pawn_rank(board)
       /\ board_piece_at(board, m.from_square + 8 * forward(board)) = NoPiece
       /\ board_piece_at(board, m.to_square) = NoPiece
    \/ /\ files \in {1, -1}
       /\ ranks = forward(board)
       /\ board_piece_at(board, m.to_square) # NoPiece

\* `move in board.legal_moves`
is_legal(board, m) ==
    /\ board_piece_at(board, m.from_square).color = board.turn
    /\ board_piece_at(board, m.to_square).color # board.turn
    /\ IF board_piece_at(board, m.from_square).piece_type = "KNIGHT"
       THEN {Distance(m.to_square % 8, m.from_square % 8),
             Distance(m.to_square \div 8, m.from_square \div 8)} = {1, 2}
       ELSE /\ board_piece_at(board, m.from_square).piece_type = "PAWN"
            /\ pawn_move(board, m, (m.to_square % 8) - (m.from_square % 8),
                         (m.to_square \div 8) - (m.from_square \div 8))

\* board.push(move)
push(board, m) ==
    [pieces |-> [sq \in (DOMAIN board.pieces \ {m.from_square}) \cup {m.to_square} |->
                    IF sq = m.to_square THEN board.pieces[m.from_square]
                    ELSE board.pieces[sq]],
     turn |-> IF board.turn = WHITE THEN BLACK ELSE WHITE]

\* board.san(move) for a legal move of a pawn or a knight that needs no
\* file or rank to tell it apart
san(board, uci, m) ==
    (IF board_piece_at(board, m.from_square).piece_type = "KNIGHT" THEN <<"N">>
     ELSE IF board_piece_at(board, m.to_square) # NoPiece THEN <<uci[1]>> ELSE <<>>)
        \o (IF board_piece_at(board, m.to_square) # NoPiece THEN <<"x">> ELSE <<>>)
        \o SubSeq(uci, 3, 4)

\* the validation loop of validate_moves and of build_tree's try block: the
\* (uci, san) pairs of the moves, or raised at the first move that
\* from_uci rejects or that is not legal
RECURSIVE validate_from(_, _, _, _)
validate_move(board, moves, k, result, m) ==
    IF ~m.ok \/ ~is_legal(board, m) THEN [raised |-> "ValueError", result |-> result]
    ELSE validate_from(push(board, m), moves, k + 1,
                       Append(result, [uci |-> moves[k], san |-> san(board, moves[k], m)]))
validate_from(board, moves, k, result) ==
    IF k > Len(moves) THEN [raised |-> "none", result |-> result]
    ELSE validate_move(board, moves, k, result, from_uci(moves[k]))

validate_moves(moves) == validate_from(StartBoard, moves, 1, <<>>)

\* main_line[:branch_ply]
main_path_to(main_line, branch_ply) ==
    SubSeq(main_line, 1, IF branch_ply < Len(main_line) THEN branch_ply ELSE Len(main_line))

\* the board after the moves are pushed, none of them checked
RECURSIVE pushed_all(_, _, _)
pushed_all(board, moves, k) ==
    IF k > Len(moves) THEN board
    ELSE pushed_all(push(board, from_uci(moves[k])), moves, k + 1)

\* "Create nested main line": node i is the child of node i - 1, the root
\* being node 0
main_line_nodes(validated_main) ==
    [i \in DOMAIN validated_main |->
        [id |-> [k \in 1..i |-> validated_main[k].uci],
         parent |-> i - 1,
         move |-> validated_main[i],
         isMainLine |-> TRUE,
         weight |-> Max(300 - (i - 1) * 20, 50),
         variationName |-> ""]]

\* "Navigate to the branch point in the main line tree"
RECURSIVE navigate(_, _, _)
main_children(nodes, parent) ==
    {k \in DOMAIN nodes : nodes[k].parent = parent /\ nodes[k].isMainLine}
navigate(nodes, parent, plies) ==
    IF plies <= 0 \/ main_children(nodes, parent) = {} THEN parent
    ELSE navigate(nodes, Least(main_children(nodes, parent)), plies - 1)

\* "Build the variation branch": the nodes are appended under parent, each
\* the child of the one before, the first named
variation_nodes(nodes, parent, main_path, var, var_validated) ==
    nodes \o
    [j \in DOMAIN var_validated |->
        [id |-> main_path \o [k \in 1..j |-> var_validated[k].uci],
         parent |-> IF j = 1 THEN parent ELSE Len(nodes) + j - 1,
         move |-> var_validated[j],
         isMainLine |-> FALSE,
         weight |-> Max(200 - (var.branch_ply + (j - 1)) * 15, 30),
         variationName |-> IF j = 1 THEN var.name ELSE ""]]

\* the graft, were each node attached as soon as its move is validated
graft_as_validated(nodes, parent, main_path, var, v) ==
    variation_nodes(nodes, parent, main_path, var, v.result)

\* one pass of "Graft variations", v being what the try block validated: the
\* nodes as they were when it raised ValueError, the branch appended otherwise
graft(nodes, parent, main_path, var, v) ==
    IF v.raised # "none" THEN nodes
    ELSE variation_nodes(nodes, parent, main_path, var, v.result)

\* one pass of the loop for var
graft_variation(nodes, main_line, var) ==
    graft(nodes, navigate(nodes, 0, var.branch_ply),
          main_path_to(main_line, var.branch_ply), var,
          validate_from(pushed_all(StartBoard, main_path_to(main_line, var.branch_ply), 1),
                        var.moves, 1, <<>>))

\* the moves of the model's lines, in UCI
Uci(from, to) == from \o to
m_e2e4 == Uci(<<"e","2">>, <<"e","4">>)
m_e7e5 == Uci(<<"e","7">>, <<"e","5">>)
m_g1f3 == Uci(<<"g","1">>, <<"f","3">>)
m_b8c6 == Uci(<<"b","8">>, <<"c","6">>)
m_g8f6 == Uci(<<"g","8">>, <<"f","6">>)
m_d2d4 == Uci(<<"d","2">>, <<"d","4">>)
m_e4e5 == Uci(<<"e","4">>, <<"e","5">>)
m_f3e5 == Uci(<<"f","3">>, <<"e","5">>)
m_e5d4 == Uci(<<"e","5">>, <<"d","4">>)
m_e9e4 == Uci(<<"e","9">>, <<"e","4">>)

\* main lines: two that validate and one with an illegal second move
MainLines ==
    { <<m_e2e4, m_e7e5, m_g1f3, m_b8c6>>,
      <<m_e2e4, m_e7e5>>,
      <<m_e2e4, m_e4e5>> }

\* variations: legal ones (with a capture, from the root, from beyond the
\* main line's end) and ones whose first or later move is illegal or is no
\* move at all
Variations ==
    { [name |-> "Center Game", branch_ply |-> 2, moves |-> <<m_d2d4, m_e5d4>>],
      [name |-> "Nimzowitsch", branch_ply |-> 1, moves |-> <<m_b8c6, m_g1f3>>],
      [name |-> "Petrov", branch_ply |-> 3, moves |-> <<m_g8f6, m_f3e5>>],
      [name |-> "Queen's Pawn", branch_ply |-> 0, moves |-> <<m_d2d4>>],
      [name |-> "Late", branch_ply |-> 5, moves |-> <<m_d2d4>>],
      [name |-> "Blocked", branch_ply |-> 2, moves |-> <<m_d2d4, m_e4e5>>],
      [name |-> "Out of turn", branch_ply |-> 2, moves |-> <<m_e7e5, m_d2d4>>],
      [name |-> "No square", branch_ply |-> 1, moves |-> <<m_e7e5, m_e9e4>>] }

\* how many variations an opening of the model has at most
MaxVariations == 2

RECURSIVE VariationsUpTo(_)
VariationsUpTo(n) ==
    IF n = 0 THEN {<<>>}
    ELSE VariationsUpTo(n - 1)
            \cup {Append(vs, v) : vs \in VariationsUpTo(n - 1), v \in Variations}

TreeInit ==
    /\ TextIdle
    /\ NoRun
    /\ NoTree
    /\ opening \in [main_line : MainLines, variations : VariationsUpTo(MaxVariations)]

\* the generator's variables that build_tree leaves alone
loopVars == <<textVars, mainVars>>

TakeValidated(v) ==
    /\ raised' = v.raised
    /\ IF v.raised = "none"
       THEN /\ tree' = main_line_nodes(v.result)
            /\ var_at' = 1
            /\ pc' = pc
       ELSE /\ pc' = "build_tree_raised"
            /\ UNCHANGED <<tree, var_at>>

\* build_tree up to the graft loop: the main line is validated (the
\* ValueError of validate_moves escapes) and its nodes are nested
BuildMainLine ==
    /\ pc = "ready"
    /\ var_at = 0
    /\ TakeValidated(validate_moves(opening.main_line))
    /\ UNCHANGED <<fen, response, score, cleaned, rejected, cleaned2, rejected2,
                   kept, all_removed, detectVars, scriptVars, mainVars, opening>>

\* one pass of the graft loop
GraftVariation ==
    /\ pc = "ready"
    /\ var_at \in DOMAIN opening.variations
    /\ tree' = graft_variation(tree, opening.main_line, opening.variations[var_at])
    /\ var_at' = var_at + 1
    /\ UNCHANGED <<loopVars, opening>>

\* return root
ReturnTree ==
    /\ pc = "ready"
    /\ var_at = Len(opening.variations) + 1
    /\ pc' = "tree_built"
    /\ UNCHANGED <<fen, response, score, raised, cleaned, rejected, cleaned2,
                   rejected2, kept, all_removed, detectVars, scriptVars,
                   generatorVars>>

TreeNext ==
    \/ BuildMainLine
    \/ GraftVariation
    \/ ReturnTree

TreeSpec == TreeInit /\ [][TreeNext]_vars

-----------------------------------------------------------------------------
(* build_tree's properties                                                 *)

\* the position at the branch point of var, then after the first n moves of
\* var
BranchBoard(var) ==
    pushed_all(StartBoard, main_path_to(opening.main_line, var.branch_ply), 1)
BoardIn(var, n) == pushed_all(BranchBoard(var), SubSeq(var.moves, 1, n), 1)

\* a move of var is no move or is illegal where it is played, the moves
\* before it being legal
HasIllegalMove(var) ==
    \E k \in DOMAIN var.moves :
        /\ \A j \in 1..(k - 1) :
              from_uci(var.moves[j]).ok
                  /\ is_legal(BoardIn(var, j - 1), from_uci(var.moves[j]))
        /\ ~(from_uci(var.moves[k]).ok
                /\ is_legal(BoardIn(var, k - 1), from_uci(var.moves[k])))

\* the graft loop is at a variation
Grafting == pc = "ready" /\ var_at \in DOMAIN opening.variations

\* C30: a pass of the graft loop over a variation with an illegal move
\* leaves the tree exactly as it was and goes on to the next variation; over
\* a variation without one it keeps the nodes there were and appends one
\* node for each move of the variation.
C30_GraftIsAtomic ==
    [][Grafting =>
          /\ var_at' = var_at + 1
          /\ pc' = "ready"
          /\ IF HasIllegalMove(opening.variations[var_at])
             THEN tree' = tree
             ELSE /\ Len(tree') = Len(tree) + Len(opening.variations[var_at].moves)
                  /\ SubSeq(tree', 1, Len(tree)) = tree]_vars

\* a variation whose second move is illegal was passed over and the one
\* after it was grafted
C30_Witness ==
    /\ pc = "tree_built"
    /\ Len(opening.variations) = 2
    /\ HasIllegalMove(opening.variations[1])
    /\ from_uci(opening.variations[1].moves[1]).ok
    /\ is_legal(BranchBoard(opening.variations[1]), from_uci(opening.variations[1].moves[1]))
    /\ ~HasIllegalMove(opening.variations[2])
    /\ Len(tree) = Len(opening.main_line) + Len(opening.variations[2].moves)
    /\ tree[Len(tree)].id[Len(tree[Len(tree)].id)] = opening.variations[2].moves[2]

====
